---------------------------- MODULE Spec2Model ----------------------------
(***************************************************************************)
(* Name-constraint validation of libcrypto (x509_constraints.c).           *)
(*                                                                         *)
(* Bytes are modelled as one-character strings ("a", "@", ".").  Bytes     *)
(* that have no printable form are the tokens "NUL", "HT", "LF", "CR" and  *)
(* "x80" (a byte with the top bit set); "BQ" is the backquote.  A C string *)
(* is the sequence of its bytes without the terminating NUL; a NULL char   *)
(* pointer is the value NULL.  Memory allocation is assumed to succeed:    *)
(* the paths taken only when malloc/calloc/strdup return NULL are not part *)
(* of the model.                                                           *)
(***************************************************************************)
EXTENDS Integers, Sequences, FiniteSets, TLC

(***************************************************************************)
(* Bytes and <ctype.h>                                                     *)
(***************************************************************************)
NULL == <<"NULL">>

Lower == <<"a","b","c","d","e","f","g","h","i","j","k","l","m",
           "n","o","p","q","r","s","t","u","v","w","x","y","z">>
Upper == <<"A","B","C","D","E","F","G","H","I","J","K","L","M",
           "N","O","P","Q","R","S","T","U","V","W","X","Y","Z">>
Digits == <<"0","1","2","3","4","5","6","7","8","9">>

Range(s) == {s[k] : k \in 1..Len(s)}

isdigit(c) == c \in Range(Digits)
isalpha(c) == c \in Range(Lower) \cup Range(Upper)
isalnum(c) == isalpha(c) \/ isdigit(c)
isascii(c) == c # "x80"

tolower(c) ==
    IF c \in Range(Upper)
    THEN Lower[CHOOSE k \in 1..Len(Upper) : Upper[k] = c]
    ELSE c

DigitVal(c) == (CHOOSE k \in 1..Len(Digits) : Digits[k] = c) - 1

(* strncasecmp(a, b, n) == 0 for two strings that both hold n bytes *)
strncasecmp_eq(a, b) ==
    /\ Len(a) = Len(b)
    /\ \A k \in 1..Len(a) : tolower(a[k]) = tolower(b[k])

(* the last n bytes of s: the C expression s + (strlen(s) - n) *)
Suffix(s, n) == SubSeq(s, Len(s) - n + 1, Len(s))

(* n copies of the string s, used to build inputs at the length limits *)
Rep(s, n) == [k \in 1..(n * Len(s)) |-> s[((k - 1) % Len(s)) + 1]]

(***************************************************************************)
(* RFC 2821 section 4.5.3.1 limits                                         *)
(***************************************************************************)
LOCAL_PART_MAX_LEN == 64
DOMAIN_PART_MAX_LEN == 255

(***************************************************************************)
(* inet_pton(3), as called by x509_constraints_valid_host on a C string    *)
(***************************************************************************)
RECURSIVE inet_pton4_loop(_, _, _, _, _)
inet_pton4_loop(src, p, saw_digit, octets, val) ==
    IF p > Len(src) THEN octets >= 4
    ELSE LET ch == src[p] IN
         IF isdigit(ch)
         THEN LET new == val * 10 + DigitVal(ch) IN
              IF new > 255 THEN FALSE
              ELSE IF ~saw_digit /\ octets + 1 > 4 THEN FALSE
              ELSE inet_pton4_loop(src, p + 1, TRUE,
                       IF saw_digit THEN octets ELSE octets + 1, new)
         ELSE IF ch = "." /\ saw_digit
         THEN IF octets = 4 THEN FALSE
              ELSE inet_pton4_loop(src, p + 1, FALSE, octets, 0)
         ELSE FALSE

inet_pton4(src) == inet_pton4_loop(src, 1, FALSE, 0, 0)

isxdigit(c) == isdigit(c) \/ tolower(c) \in {"a", "b", "c", "d", "e", "f"}

(* tp counts the bytes of the 16-byte address written so far *)
RECURSIVE inet_pton6_loop(_, _, _, _, _, _, _)
inet_pton6_loop(src, p, tp, colonp, saw_xdigit, count_xdigit, curtok) ==
    IF p > Len(src)
    THEN LET tp2 == IF saw_xdigit THEN tp + 2 ELSE tp IN
         /\ tp2 <= 16
         /\ IF colonp THEN tp2 # 16 ELSE tp2 = 16
    ELSE LET ch == src[p] IN
         IF isxdigit(ch)
         THEN IF count_xdigit >= 4 THEN FALSE
              ELSE inet_pton6_loop(src, p + 1, tp, colonp, TRUE,
                       count_xdigit + 1, curtok)
         ELSE IF ch = ":"
         THEN IF ~saw_xdigit
              THEN IF colonp THEN FALSE
                   ELSE inet_pton6_loop(src, p + 1, tp, TRUE, FALSE, 0, p + 1)
              ELSE IF p + 1 > Len(src) THEN FALSE
              ELSE IF tp + 2 > 16 THEN FALSE
              ELSE inet_pton6_loop(src, p + 1, tp + 2, colonp, FALSE, 0, p + 1)
         ELSE IF ch = "." /\ tp + 4 <= 16
                   /\ inet_pton4(SubSeq(src, curtok, Len(src)))
         THEN IF colonp THEN tp + 4 # 16 ELSE tp + 4 = 16
         ELSE FALSE

inet_pton6(src) ==
    IF Len(src) >= 1 /\ src[1] = ":"
    THEN /\ Len(src) >= 2
         /\ src[2] = ":"
         /\ inet_pton6_loop(src, 2, 0, FALSE, FALSE, 0, 2)
    ELSE inet_pton6_loop(src, 1, 0, FALSE, FALSE, 0, 1)

(***************************************************************************)
(* Name validators                                                         *)
(***************************************************************************)
(* One iteration of the for loop; s = [c, component, ok] is the loop state *)
valid_domain_internal_step(name, i, s) ==
    LET prev == s.c
        ch == name[i]
        first == (i = 1)
        last == (i = Len(name))
        fail == [s EXCEPT !.ok = FALSE]
    IN
    IF ~isascii(ch) \/ ch = "NUL" THEN fail
    ELSE IF ~isalnum(ch) /\ ch # "-" /\ ch # "." /\ ch # "_" /\ ch # "*"
    THEN fail
    ELSE IF ch = "*" /\ ~first THEN fail
    ELSE IF ch = "-" /\ (s.component = 0 \/ last) THEN fail
    ELSE IF ch = "." /\ ((s.component = 0 /\ ~first) \/ last) THEN fail
    ELSE IF ch = "."
    THEN IF prev = "-" THEN fail
         ELSE [s EXCEPT !.c = ch, !.component = 0]
    ELSE IF s.component + 1 > 63 THEN fail
    ELSE [s EXCEPT !.c = ch, !.component = s.component + 1]

(* The iterations lo..hi of the loop, in order, stopping at the first      *)
(* return.  The range is split in halves so that the evaluation nests      *)
(* only logarithmically deep in the length of the name.                    *)
RECURSIVE valid_domain_internal_loop(_, _, _, _)
valid_domain_internal_loop(name, lo, hi, s) ==
    IF lo > hi \/ ~s.ok THEN s
    ELSE IF lo = hi THEN valid_domain_internal_step(name, lo, s)
    ELSE LET mid == (lo + hi) \div 2
             left == valid_domain_internal_loop(name, lo, mid, s)
         IN valid_domain_internal_loop(name, mid + 1, hi, left)

x509_constraints_valid_domain_internal(name) ==
    IF Len(name) > DOMAIN_PART_MAX_LEN THEN FALSE
    ELSE valid_domain_internal_loop(name, 1, Len(name),
             [c |-> "NUL", component |-> 0, ok |-> TRUE]).ok

(* valid_host without the two inet_pton tests *)
valid_host_no_inet_pton(cstr, name) ==
    IF Len(name) = 0 THEN FALSE
    ELSE IF name[1] = "*" THEN FALSE
    ELSE IF name[1] = "." THEN FALSE
    ELSE x509_constraints_valid_domain_internal(name)

(* cstr is what inet_pton reads: the bytes from the pointer "name" up to   *)
(* the first NUL, which is not cut at len.  name is the first len bytes.   *)
x509_constraints_valid_host(cstr, name) ==
    IF Len(name) = 0 THEN FALSE
    ELSE IF name[1] = "*" THEN FALSE
    ELSE IF name[1] = "." THEN FALSE
    ELSE IF inet_pton4(cstr) THEN FALSE
    ELSE IF inet_pton6(cstr) THEN FALSE
    ELSE x509_constraints_valid_domain_internal(name)

x509_constraints_valid_sandns(name) ==
    IF Len(name) = 0 THEN FALSE
    ELSE IF name[1] = "." THEN FALSE
    ELSE IF Len(name) < 4 /\ name[1] = "*" THEN FALSE
    ELSE IF Len(name) >= 4 /\ name[1] = "*" /\ name[2] # "." THEN FALSE
    ELSE x509_constraints_valid_domain_internal(name)

x509_constraints_valid_domain_constraint(constraint) ==
    IF Len(constraint) = 0 THEN TRUE
    ELSE IF constraint[1] = "*" THEN FALSE
    ELSE IF Len(constraint) < 3 /\ constraint[1] = "." THEN FALSE
    ELSE x509_constraints_valid_domain_internal(constraint)

local_part_ok(c) ==
    \/ isalnum(c)
    \/ c \in {"!", "#", "$", "%", "&", "'", "*", "+", "-", "/", "=", "?",
              "^", "_", "BQ", "{", "|", "}", "~", "."}

(***************************************************************************)
(* struct x509_constraints_name                                            *)
(***************************************************************************)
GEN_NONE == "0"
GEN_EMAIL == "GEN_EMAIL"
GEN_DNS == "GEN_DNS"
GEN_DIRNAME == "GEN_DIRNAME"
GEN_URI == "GEN_URI"
GEN_IPADD == "GEN_IPADD"
GEN_OTHER == "GEN_OTHERNAME"

AF_UNSPEC == "0"
AF_INET == "AF_INET"
AF_INET6 == "AF_INET6"

(* calloc(1, sizeof(struct x509_constraints_name)) *)
x509_constraints_name_new ==
    [type |-> GEN_NONE, name |-> NULL, local |-> NULL,
     der |-> NULL, af |-> AF_UNSPEC, address |-> <<>>]

(***************************************************************************)
(* x509_constraints_parse_mailbox                                          *)
(*                                                                         *)
(* The loop state is the record [i, working, accept, quoted, local,        *)
(* domain, overread, out]: i is the 1-based position in candidate, working *)
(* holds the bytes written to the working buffer since it was last zeroed  *)
(* (so wi = Len(working)), and out is "run", "break" or "bad".  stack is   *)
(* the run of non-NUL bytes that follows the working buffer in memory:     *)
(* strdup(working) with all DOMAIN_PART_MAX_LEN + 1 bytes of the buffer    *)
(* written finds no NUL inside the buffer and copies those bytes too.      *)
(***************************************************************************)
strdup_working(working, stack) ==
    IF Len(working) >= DOMAIN_PART_MAX_LEN + 1
    THEN working \o stack
    ELSE working

parse_mailbox_step(candidate, stack, s) ==
    LET c == candidate[s.i]
        len == Len(candidate)
        wi == Len(s.working)
        quoted == IF s.i = 1 /\ c = "\"" THEN TRUE ELSE s.quoted
        bad == [s EXCEPT !.out = "bad"]
        next == [s EXCEPT !.i = s.i + 1, !.quoted = quoted]
        put == [next EXCEPT !.working = Append(s.working, c)]
    IN
    IF ~isascii(c) \/ c = "CR" \/ c = "LF" \/ c = "NUL" THEN bad
    ELSE IF s.i = 1 /\ c = "." THEN bad
    ELSE IF wi > DOMAIN_PART_MAX_LEN THEN bad
    ELSE IF s.accept THEN [put EXCEPT !.accept = FALSE]
    ELSE IF s.local # NULL
    THEN (* We are looking for the domain part *)
         IF s.i = len
         THEN IF s.domain # NULL THEN bad
              ELSE [put EXCEPT
                      !.domain = strdup_working(put.working, stack),
                      !.overread = Len(put.working) >= DOMAIN_PART_MAX_LEN + 1]
         ELSE put
    ELSE (* We are looking for the local part *)
    IF wi > LOCAL_PART_MAX_LEN THEN [s EXCEPT !.out = "break"]
    ELSE IF quoted
    THEN IF c = "\\" THEN [next EXCEPT !.accept = TRUE]
         ELSE IF c = "\"" /\ s.i # 1
                   /\ (s.i = len \/ candidate[s.i + 1] # "@")
         THEN bad
         ELSE IF c = "HT" THEN bad
         ELSE [put EXCEPT
                 !.quoted = IF c = "\"" /\ s.i # 1 THEN FALSE ELSE quoted]
    ELSE IF c = "@"
    THEN IF wi = 0 THEN bad
         ELSE [next EXCEPT !.local = strdup_working(s.working, stack),
                           !.working = <<>>]
    ELSE IF c = "\\" /\ s.i = len THEN bad
    ELSE IF c = "\\" /\ ~local_part_ok(candidate[s.i + 1]) THEN bad
    ELSE IF ~local_part_ok(c) THEN bad
    ELSE [put EXCEPT !.accept = (c = "\\")]

(* The iterations lo..hi of the for loop, in order, stopping at the first *)
(* "goto bad" or "break"; split in halves like the loop above.            *)
RECURSIVE parse_mailbox_loop(_, _, _, _, _)
parse_mailbox_loop(candidate, stack, lo, hi, s) ==
    IF lo > hi \/ s.out # "run" THEN s
    ELSE IF lo = hi THEN parse_mailbox_step(candidate, stack, s)
    ELSE LET mid == (lo + hi) \div 2
             left == parse_mailbox_loop(candidate, stack, lo, mid, s)
         IN parse_mailbox_loop(candidate, stack, mid + 1, hi, left)

(* the copies candidate_local and candidate_domain that are allocated *)
mailbox_copies(s) ==
    (IF s.local # NULL THEN 1 ELSE 0) + (IF s.domain # NULL THEN 1 ELSE 0)

(* The "bad" label: free the two copies and return 0.  unfreed counts the  *)
(* copies that are neither freed nor stored in the record at the return.   *)
parse_mailbox_bad(name, s) ==
    [ret |-> 0, name |-> name, overread |-> s.overread,
     unfreed |-> mailbox_copies(s) - (IF s.local # NULL THEN 1 ELSE 0)
                                   - (IF s.domain # NULL THEN 1 ELSE 0)]

(* parse_mailbox_end without the host-name validation of the domain part *)
parse_mailbox_end_novalidate(name, s) ==
    IF s.out = "bad" THEN parse_mailbox_bad(name, s)
    ELSE IF s.local = NULL \/ s.domain = NULL THEN parse_mailbox_bad(name, s)
    ELSE [ret |-> 1,
          name |-> [name EXCEPT !.local = s.local, !.name = s.domain,
                                !.type = GEN_EMAIL],
          overread |-> s.overread, unfreed |-> 0]

(* parse_mailbox_end with name->local stored before the validation *)
parse_mailbox_end_early_store(name, s) ==
    IF s.out = "bad" THEN parse_mailbox_bad(name, s)
    ELSE IF s.local = NULL \/ s.domain = NULL THEN parse_mailbox_bad(name, s)
    ELSE IF ~x509_constraints_valid_host(s.domain, s.domain)
    THEN parse_mailbox_bad([name EXCEPT !.local = s.local], s)
    ELSE [ret |-> 1,
          name |-> [name EXCEPT !.local = s.local, !.name = s.domain,
                                !.type = GEN_EMAIL],
          overread |-> s.overread, unfreed |-> 0]

(* From the end of the for loop, left in the state s, to the return.  The  *)
(* result is [ret, name, overread, unfreed]: the return value, the target  *)
(* record as the call leaves it, whether a strdup read past the working    *)
(* buffer, and the copies left allocated outside the record.               *)
parse_mailbox_end(name, s) ==
    IF s.out = "bad" THEN parse_mailbox_bad(name, s)
    ELSE IF s.local = NULL \/ s.domain = NULL THEN parse_mailbox_bad(name, s)
    ELSE IF ~x509_constraints_valid_host(s.domain, s.domain)
    THEN parse_mailbox_bad(name, s)
    ELSE [ret |-> 1,
          name |-> [name EXCEPT !.local = s.local, !.name = s.domain,
                                !.type = GEN_EMAIL],
          overread |-> s.overread, unfreed |-> 0]

(* the locals at the first iteration of the for loop *)
parse_mailbox_start ==
    [i |-> 1, working |-> <<>>, accept |-> FALSE, quoted |-> FALSE,
     local |-> NULL, domain |-> NULL, overread |-> FALSE, out |-> "run"]

x509_constraints_parse_mailbox(candidate, stack, name) ==
    IF candidate = NULL
    THEN [ret |-> 0, name |-> name, overread |-> FALSE, unfreed |-> 0]
    ELSE IF Len(candidate) > LOCAL_PART_MAX_LEN + DOMAIN_PART_MAX_LEN + 1
    THEN [ret |-> 0, name |-> name, overread |-> FALSE, unfreed |-> 0]
    ELSE parse_mailbox_end(name,
             parse_mailbox_loop(candidate, stack, 1, Len(candidate),
                 parse_mailbox_start))

(***************************************************************************)
(* x509_constraints_uri_host.  Positions are 1-based; a position of 0 is   *)
(* a NULL pointer.  The result is [ret, host]: host is the string stored   *)
(* in *hostpart, NULL when nothing was stored.                             *)
(***************************************************************************)
(* the second for loop: [host, hostlen, ok] when the loop is left *)
RECURSIVE uri_host_scan(_, _, _, _)
uri_host_scan(uri, i, host, hostlen) ==
    IF i > Len(uri) THEN [host |-> host, hostlen |-> hostlen, ok |-> TRUE]
    ELSE IF ~isascii(uri[i])
    THEN [host |-> host, hostlen |-> hostlen, ok |-> FALSE]
    ELSE IF uri[i] = "@"
    THEN IF host # 0
         THEN [host |-> host, hostlen |-> 0, ok |-> TRUE]
         ELSE uri_host_scan(uri, i + 1, i + 1, 0)
    ELSE IF uri[i] \in {":", "/", "?", "#"}
    THEN [host |-> host, hostlen |-> hostlen, ok |-> TRUE]
    ELSE uri_host_scan(uri, i + 1, host, hostlen + 1)

(* From the end of the second for loop, left with r, to the return *)
uri_host_end(uri, authority, r) ==
    IF ~r.ok THEN [ret |-> 0, host |-> NULL]
    ELSE IF r.hostlen = 0 THEN [ret |-> 0, host |-> NULL]
    ELSE LET host == IF r.host = 0 THEN authority ELSE r.host IN
         IF ~x509_constraints_valid_host(
                 SubSeq(uri, host, Len(uri)),
                 SubSeq(uri, host, host + r.hostlen - 1))
         THEN [ret |-> 0, host |-> NULL]
         ELSE [ret |-> 1, host |-> SubSeq(uri, host, host + r.hostlen - 1)]

(* where the first for loop stops: the first position that holds a         *)
(* non-ASCII byte or starts "//", or 0 when the loop runs to its end       *)
uri_host_first_stop(uri) ==
    LET stops == {i \in 1..(Len(uri) - 1) :
                     ~isascii(uri[i]) \/ (uri[i] = "/" /\ uri[i + 1] = "/")}
    IN IF stops = {} THEN 0
       ELSE CHOOSE x \in stops : \A y \in stops : x <= y

(* the function from the position i0 where the first loop stopped *)
uri_host_from(uri, i0) ==
    IF i0 = 0 THEN [ret |-> 0, host |-> NULL]
    ELSE IF ~isascii(uri[i0]) THEN [ret |-> 0, host |-> NULL]
    ELSE uri_host_end(uri, i0 + 2, uri_host_scan(uri, i0 + 2, 0, 0))

x509_constraints_uri_host(uri) ==
    IF Len(uri) < 3 THEN [ret |-> 0, host |-> NULL]
    ELSE uri_host_from(uri, uri_host_first_stop(uri))

(***************************************************************************)
(* Matching one name against one constraint                                *)
(***************************************************************************)
(* x509_constraints_sandns comparing with strncmp *)
sandns_case_sensitive(sandns, constraint) ==
    IF Len(constraint) = 0 THEN TRUE
    ELSE IF Len(sandns) < Len(constraint) THEN FALSE
    ELSE Suffix(sandns, Len(constraint)) = constraint

x509_constraints_sandns(sandns, constraint) ==
    IF Len(constraint) = 0 THEN TRUE
    ELSE IF Len(sandns) < Len(constraint) THEN FALSE
    ELSE strncasecmp_eq(Suffix(sandns, Len(constraint)), constraint)

(* x509_constraints_domain without the test dlen != len before the final   *)
(* comparison: the constraint is compared with the end of the domain       *)
domain_no_length_test(domain, constraint) ==
    IF Len(constraint) = 0 THEN TRUE
    ELSE IF Len(domain) < Len(constraint) THEN FALSE
    ELSE strncasecmp_eq(Suffix(domain, Len(constraint)), constraint)

x509_constraints_domain(domain, constraint) ==
    IF Len(constraint) = 0 THEN TRUE
    ELSE IF constraint[1] = "."
    THEN IF Len(domain) < Len(constraint) THEN FALSE
         ELSE strncasecmp_eq(Suffix(domain, Len(constraint)), constraint)
    ELSE IF Len(domain) >= 1 /\ domain[1] = "."
    THEN IF Len(constraint) < Len(domain) THEN FALSE
         ELSE strncasecmp_eq(Suffix(constraint, Len(domain)), domain)
    ELSE IF Len(domain) # Len(constraint) THEN FALSE
    ELSE strncasecmp_eq(domain, constraint)

(* a & b on two bytes *)
RECURSIVE BitAnd(_, _)
BitAnd(a, b) ==
    IF a = 0 \/ b = 0 THEN 0
    ELSE (a % 2) * (b % 2) + 2 * BitAnd(a \div 2, b \div 2)

(* x509_constraints_ipaddr comparing the address bytes without the mask *)
ipaddr_no_mask(address, alen, constraint, len) ==
    IF alen * 2 # len THEN FALSE
    ELSE \A i \in 1..alen : address[i] = constraint[i]

(* address holds alen bytes; constraint holds the address and then the mask *)
x509_constraints_ipaddr(address, alen, constraint, len) ==
    IF alen * 2 # len THEN FALSE
    ELSE \A i \in 1..alen :
             BitAnd(address[i], constraint[alen + i])
                 = BitAnd(constraint[i], constraint[alen + i])

x509_constraints_dirname(dirname, constraint) ==
    IF Len(constraint) # Len(dirname) THEN FALSE
    ELSE constraint = dirname

x509_constraints_match(name, constraint) ==
    IF name.type # constraint.type THEN FALSE
    ELSE IF name.type = GEN_DNS
    THEN x509_constraints_sandns(name.name, constraint.name)
    ELSE IF name.type = GEN_URI
    THEN x509_constraints_domain(name.name, constraint.name)
    ELSE IF name.type = GEN_IPADD
    THEN LET nlen == IF name.af = AF_INET THEN 4 ELSE 16
             clen == IF name.af = AF_INET THEN 8 ELSE 32
         IN
         IF name.af # AF_INET /\ name.af # AF_INET6 THEN FALSE
         ELSE IF constraint.af # AF_INET /\ constraint.af # AF_INET6 THEN FALSE
         ELSE IF name.af # constraint.af THEN FALSE
         ELSE x509_constraints_ipaddr(name.address, nlen,
                  constraint.address, clen)
    ELSE IF name.type = GEN_EMAIL
    THEN IF constraint.local # NULL
         THEN name.local = constraint.local /\ name.name = constraint.name
         ELSE x509_constraints_domain(name.name, constraint.name)
    ELSE IF name.type = GEN_DIRNAME
    THEN x509_constraints_dirname(name.der, constraint.der)
    ELSE FALSE

(***************************************************************************)
(* x509_constraints_check.  A NameSet is the sequence of its records.  The *)
(* result is [ret, error]; error is NoError when *error is not written.    *)
(***************************************************************************)
NoError == "unset"
X509_V_ERR_UNSPECIFIED == "X509_V_ERR_UNSPECIFIED"
X509_V_ERR_OUT_OF_MEM == "X509_V_ERR_OUT_OF_MEM"
X509_V_ERR_UNSUPPORTED_NAME_SYNTAX == "X509_V_ERR_UNSUPPORTED_NAME_SYNTAX"
X509_V_ERR_UNSUPPORTED_CONSTRAINT_SYNTAX == "X509_V_ERR_UNSUPPORTED_CONSTRAINT_SYNTAX"
X509_V_ERR_SUBTREE_MINMAX == "X509_V_ERR_SUBTREE_MINMAX"
X509_V_ERR_EXCLUDED_VIOLATION == "X509_V_ERR_EXCLUDED_VIOLATION"
X509_V_ERR_PERMITTED_VIOLATION == "X509_V_ERR_PERMITTED_VIOLATION"

(* the loop over excluded for one name: TRUE when it returns at a match *)
check_excluded(name, excluded) ==
    \E j \in 1..Len(excluded) : x509_constraints_match(name, excluded[j])

(* The loop over permitted for one name, from the 1-based position j, with *)
(* s = [permitted_seen, permitted_matched]; it breaks at the first match.  *)
RECURSIVE check_permitted(_, _, _, _)
check_permitted(name, permitted, j, s) ==
    IF j > Len(permitted) THEN s
    ELSE IF x509_constraints_match(name, permitted[j])
    THEN [permitted_seen |-> s.permitted_seen
                                + (IF permitted[j].type = name.type
                                   THEN 1 ELSE 0),
          permitted_matched |-> s.permitted_matched + 1]
    ELSE check_permitted(name, permitted, j + 1,
             [s EXCEPT !.permitted_seen =
                 @ + (IF permitted[j].type = name.type THEN 1 ELSE 0)])

(* the test after the permitted loop *)
check_permitted_end(s) ==
    IF s.permitted_seen # 0 /\ s.permitted_matched = 0
    THEN X509_V_ERR_PERMITTED_VIOLATION
    ELSE NoError

(* check_name with the two inner loops in the other order *)
check_name_permitted_first(name, permitted, excluded) ==
    IF check_permitted_end(check_permitted(name, permitted, 1,
           [permitted_seen |-> 0, permitted_matched |-> 0])) # NoError
    THEN X509_V_ERR_PERMITTED_VIOLATION
    ELSE IF check_excluded(name, excluded)
    THEN X509_V_ERR_EXCLUDED_VIOLATION
    ELSE NoError

(* check_name without the loop over excluded *)
check_name_no_excluded(name, permitted, excluded) ==
    check_permitted_end(check_permitted(name, permitted, 1,
        [permitted_seen |-> 0, permitted_matched |-> 0]))

(* The body of the outer loop for one name: the error the function returns *)
(* with, or NoError when the loop goes on to the next name.                *)
check_name(name, permitted, excluded) ==
    IF check_excluded(name, excluded)
    THEN X509_V_ERR_EXCLUDED_VIOLATION
    ELSE check_permitted_end(check_permitted(name, permitted, 1,
             [permitted_seen |-> 0, permitted_matched |-> 0]))

(* the outer loop from the 1-based position i *)
RECURSIVE check_names(_, _, _, _)
check_names_step(names, permitted, excluded, i, e) ==
    IF e # NoError THEN [ret |-> 0, error |-> e]
    ELSE check_names(names, permitted, excluded, i + 1)

check_names(names, permitted, excluded, i) ==
    IF i > Len(names) THEN [ret |-> 1, error |-> NoError]
    ELSE check_names_step(names, permitted, excluded, i,
             check_name(names[i], permitted, excluded))

x509_constraints_check(names, permitted, excluded) ==
    check_names(names, permitted, excluded, 1)

(***************************************************************************)
(* Certificates, as the decoded objects the functions read.                *)
(*   altname  the GENERAL_NAMEs of the subject alternative name extension, *)
(*            each [type, data]                                            *)
(*   subject  the entries of the subject name, each [nid, data]            *)
(*   canon_enc  the canonical encoding of the subject name                 *)
(*   nc       the NAME_CONSTRAINTS: <<>> for a NULL pointer, else a        *)
(*            one-element sequence holding [permittedSubtrees,             *)
(*            excludedSubtrees], each subtree [base, minimum, maximum]     *)
(***************************************************************************)
NID_commonName == "NID_commonName"
NID_pkcs9_emailAddress == "NID_pkcs9_emailAddress"
NID_organizationName == "NID_organizationName"

(* strlen: the bytes of data before its first NUL *)
CStr(data) ==
    LET nuls == {k \in 1..Len(data) : data[k] = "NUL"} IN
    IF nuls = {} THEN data
    ELSE SubSeq(data, 1, (CHOOSE x \in nuls : \A y \in nuls : x <= y) - 1)

(* sk_GENERAL_NAME_value with a 0-based index: <<>> stands for NULL *)
sk_GENERAL_NAME_value(sk, i) ==
    IF i >= 0 /\ i < Len(sk) THEN <<sk[i + 1]>> ELSE <<>>

(* X509_NAME_get_index_by_NID: the first 0-based index above lastpos of an *)
(* entry with this NID, or -1; a negative lastpos searches from the start  *)
X509_NAME_get_index_by_NID(name, nid, lastpos) ==
    LET from == IF lastpos < 0 THEN -1 ELSE lastpos
        found == {j \in 0..(Len(name) - 1) : j > from /\ name[j + 1].nid = nid}
    IN IF found = {} THEN -1
       ELSE CHOOSE x \in found : \A y \in found : x <= y

x509_constraints_general_to_bytes(name) ==
    IF name.type \in {GEN_DNS, GEN_EMAIL, GEN_URI}
    THEN [type |-> name.type, bytes |-> CStr(name.data)]
    ELSE IF name.type \in {GEN_DIRNAME, GEN_IPADD}
    THEN [type |-> name.type, bytes |-> name.data]
    ELSE [type |-> GEN_NONE, bytes |-> <<>>]

(***************************************************************************)
(* x509_constraints_extract_names.                                         *)
(*                                                                         *)
(* The locals of the function are the record [i, names, include_cn,        *)
(* include_email, error, lost]: error is NoError until a "goto err", and   *)
(* lost counts the records the call allocated and neither stored in names  *)
(* nor freed.  The record a step of the altname loop allocates is stored,  *)
(* or freed at "err" or in the default case.  The records of the subject   *)
(* block are held by the block's own vname, which hides the function's     *)
(* vname that the "err" label frees.                                       *)
(***************************************************************************)
(* One GENERAL_NAME of the altname loop whose bytes are the result m of    *)
(* parse_mailbox, u of uri_host: [vname, error, include_cn,                *)
(* include_email]; vname is <<>> when no record is added.                  *)
altname_syntax_error ==
    [vname |-> <<>>, error |-> X509_V_ERR_UNSUPPORTED_NAME_SYNTAX,
     include_cn |-> TRUE, include_email |-> TRUE]

altname_ok(v, cn, email) ==
    [vname |-> <<v>>, error |-> NoError,
     include_cn |-> cn, include_email |-> email]

altname_email(m) ==
    IF m.ret = 0 THEN altname_syntax_error
    ELSE altname_ok([m.name EXCEPT !.type = GEN_EMAIL], TRUE, FALSE)

altname_uri(u) ==
    IF u.ret = 0 THEN altname_syntax_error
    ELSE altname_ok([x509_constraints_name_new EXCEPT
                        !.name = u.host, !.type = GEN_URI], TRUE, TRUE)

(* the switch on name_type, g being the result of general_to_bytes *)
altname_switch(g, stack) ==
    IF g.type = GEN_DNS
    THEN IF ~x509_constraints_valid_sandns(g.bytes) THEN altname_syntax_error
         ELSE altname_ok([x509_constraints_name_new EXCEPT
                             !.name = g.bytes, !.type = GEN_DNS], FALSE, TRUE)
    ELSE IF g.type = GEN_EMAIL
    THEN altname_email(x509_constraints_parse_mailbox(g.bytes, stack,
                           x509_constraints_name_new))
    ELSE IF g.type = GEN_URI
    THEN altname_uri(x509_constraints_uri_host(g.bytes))
    ELSE IF g.type = GEN_DIRNAME
    THEN IF Len(g.bytes) = 0 THEN altname_syntax_error
         ELSE altname_ok([x509_constraints_name_new EXCEPT
                             !.der = g.bytes, !.type = GEN_DIRNAME], TRUE, TRUE)
    ELSE IF g.type = GEN_IPADD
    THEN IF Len(g.bytes) # 4 /\ Len(g.bytes) # 16 THEN altname_syntax_error
         ELSE altname_ok([x509_constraints_name_new EXCEPT
                             !.af = IF Len(g.bytes) = 4 THEN AF_INET
                                    ELSE AF_INET6,
                             !.address = g.bytes,
                             !.type = GEN_IPADD], TRUE, TRUE)
    ELSE [vname |-> <<>>, error |-> NoError,
          include_cn |-> TRUE, include_email |-> TRUE]

(* the locals after the loop body that produced r *)
altname_step(s, r) ==
    [s EXCEPT !.names = IF r.vname = <<>> THEN s.names
                        ELSE Append(s.names, r.vname[1]),
              !.include_cn = s.include_cn /\ r.include_cn,
              !.include_email = s.include_email /\ r.include_email,
              !.error = r.error]

(* The while loop over cert->altname; i is the 0-based index, incremented  *)
(* by every evaluation of the loop condition.                              *)
RECURSIVE extract_altnames(_, _, _)
extract_altnames(altname, stack, s) ==
    IF s.error # NoError THEN s
    ELSE IF sk_GENERAL_NAME_value(altname, s.i) = <<>>
    THEN [s EXCEPT !.i = s.i + 1]
    ELSE extract_altnames(altname, stack,
             altname_step([s EXCEPT !.i = s.i + 1],
                 altname_switch(
                     x509_constraints_general_to_bytes(altname[s.i + 1]),
                     stack)))

(* the locals after the body of the emailAddress loop for the entry at the *)
(* 0-based index i, whose data gave the result m of parse_mailbox          *)
subject_email_step(s, i, m) ==
    IF m.ret = 0
    THEN [s EXCEPT !.i = i,
                   !.error = X509_V_ERR_UNSUPPORTED_NAME_SYNTAX,
                   !.lost = s.lost + 1]
    ELSE [s EXCEPT !.i = i,
                   !.names = Append(s.names, [m.name EXCEPT !.type = GEN_EMAIL])]

(* the emailAddress loop from the result i of X509_NAME_get_index_by_NID *)
RECURSIVE extract_subject_emails(_, _, _)
subject_emails_from(subject_name, stack, s, i) ==
    IF i < 0 THEN [s EXCEPT !.i = i]
    ELSE extract_subject_emails(subject_name, stack,
             subject_email_step(s, i,
                 x509_constraints_parse_mailbox(subject_name[i + 1].data,
                     stack, x509_constraints_name_new)))

(* the while loop over the subject's emailAddress entries *)
extract_subject_emails(subject_name, stack, s) ==
    IF s.error # NoError \/ ~s.include_email THEN s
    ELSE subject_emails_from(subject_name, stack, s,
             X509_NAME_get_index_by_NID(subject_name,
                 NID_pkcs9_emailAddress, s.i))

(* the commonName loop from the result i of X509_NAME_get_index_by_NID *)
RECURSIVE extract_subject_cns(_, _)
subject_cns_from(subject_name, s, i) ==
    IF i < 0 THEN [s EXCEPT !.i = i]
    ELSE IF ~x509_constraints_valid_host(CStr(subject_name[i + 1].data),
                                         subject_name[i + 1].data)
    THEN extract_subject_cns(subject_name, [s EXCEPT !.i = i])
    ELSE extract_subject_cns(subject_name,
             [s EXCEPT !.i = i,
                       !.names = Append(s.names,
                           [x509_constraints_name_new EXCEPT
                               !.name = CStr(subject_name[i + 1].data),
                               !.type = GEN_DNS])])

(* the while loop over the subject's commonName entries *)
extract_subject_cns(subject_name, s) ==
    IF s.error # NoError \/ ~s.include_cn THEN s
    ELSE subject_cns_from(subject_name, s,
             X509_NAME_get_index_by_NID(subject_name, NID_commonName, s.i))

(* the block for a non-empty subject, entered with the locals a *)
extract_subject(cert, stack, a) ==
    IF a.error # NoError THEN a
    ELSE IF Len(cert.subject) = 0 THEN a
    ELSE extract_subject_cns(cert.subject,
             extract_subject_emails(cert.subject, stack,
                 [a EXCEPT !.names = Append(a.names,
                     [x509_constraints_name_new EXCEPT
                         !.der = cert.canon_enc, !.type = GEN_DIRNAME])]))

(* [ret, names, error, lost], from the locals at the return *)
extract_names_return(s) ==
    [ret |-> IF s.error = NoError THEN 1 ELSE 0,
     names |-> s.names, error |-> s.error, lost |-> s.lost]

x509_constraints_extract_names(names, cert, is_leaf, stack) ==
    extract_names_return(
        extract_subject(cert, stack,
            extract_altnames(cert.altname, stack,
                [i |-> 0, names |-> names, include_cn |-> is_leaf,
                 include_email |-> is_leaf, error |-> NoError, lost |-> 0])))

(***************************************************************************)
(* x509_constraints_validate and x509_constraints_extract_constraints      *)
(***************************************************************************)
validate_err(name) ==
    [ret |-> 0, name |-> name,
     error |-> X509_V_ERR_UNSUPPORTED_CONSTRAINT_SYNTAX]

validate_ok(name) == [ret |-> 1, name |-> name, error |-> NoError]

(* the mailbox branch of GEN_EMAIL, m being the result of parse_mailbox *)
validate_mailbox(name, m) ==
    IF m.ret = 0 THEN validate_err(name)
    ELSE validate_ok([m.name EXCEPT !.type = GEN_EMAIL])

(* the switch on name_type, g being the result of general_to_bytes *)
validate_switch(g, name, stack) ==
    IF g.type = GEN_DIRNAME
    THEN IF Len(g.bytes) = 0 THEN validate_err(name)
         ELSE validate_ok([name EXCEPT !.der = g.bytes, !.type = GEN_DIRNAME])
    ELSE IF g.type = GEN_DNS
    THEN IF ~x509_constraints_valid_domain_constraint(g.bytes)
         THEN validate_err(name)
         ELSE validate_ok([name EXCEPT !.name = g.bytes, !.type = GEN_DNS])
    ELSE IF g.type = GEN_EMAIL
    THEN IF \E k \in 1..Len(g.bytes) : g.bytes[k] = "@"
         THEN validate_mailbox(name,
                  x509_constraints_parse_mailbox(g.bytes, stack, name))
         ELSE IF ~x509_constraints_valid_domain_constraint(g.bytes)
         THEN validate_err(name)
         ELSE validate_ok([name EXCEPT !.name = g.bytes, !.type = GEN_EMAIL])
    ELSE IF g.type = GEN_IPADD
    THEN IF Len(g.bytes) = 8
         THEN validate_ok([name EXCEPT !.af = AF_INET, !.address = g.bytes,
                                       !.type = GEN_IPADD])
         ELSE IF Len(g.bytes) = 32
         THEN validate_ok([name EXCEPT !.af = AF_INET6, !.address = g.bytes,
                                       !.type = GEN_IPADD])
         ELSE validate_err(name)
    ELSE IF g.type = GEN_URI
    THEN IF ~x509_constraints_valid_domain_constraint(g.bytes)
         THEN validate_err(name)
         ELSE validate_ok([name EXCEPT !.name = g.bytes, !.type = GEN_URI])
    ELSE validate_ok(name)

(* [ret, name, error]: name is the record as the call leaves it *)
x509_constraints_validate(constraint, name, stack) ==
    validate_switch(x509_constraints_general_to_bytes(constraint), name, stack)

(* the NameSet and the error after the loop body for one subtree, whose    *)
(* base gave the result v of x509_constraints_validate; the record of a    *)
(* rejected or ignored subtree is freed                                    *)
subtree_step(s, v) ==
    IF v.ret = 0 THEN [s EXCEPT !.error = v.error]
    ELSE IF v.name.type = GEN_NONE THEN s
    ELSE [s EXCEPT !.set = Append(s.set, v.name)]

(* One of the two for loops over subtrees, from the 1-based position i;    *)
(* s = [set, error] holds the NameSet being filled and NoError, or the     *)
(* error the function returns with.                                        *)
RECURSIVE extract_subtrees(_, _, _, _)
extract_subtrees(subtrees, stack, i, s) ==
    IF s.error # NoError THEN s
    ELSE IF i > Len(subtrees) THEN s
    ELSE IF subtrees[i].minimum \/ subtrees[i].maximum
    THEN [s EXCEPT !.error = X509_V_ERR_SUBTREE_MINMAX]
    ELSE extract_subtrees(subtrees, stack, i + 1,
             subtree_step(s,
                 x509_constraints_validate(subtrees[i].base,
                     x509_constraints_name_new, stack)))

(* [ret, permitted, excluded, error] from the NameSet p of the permitted   *)
(* loop and the state x = [set, error] the function returns with           *)
extract_constraints_return(p, x) ==
    [ret |-> IF x.error = NoError THEN 1 ELSE 0,
     permitted |-> p, excluded |-> x.set, error |-> x.error]

(* the loop over the excluded subtrees, after the permitted loop left p *)
extract_excluded(nc, excluded, stack, p) ==
    IF p.error # NoError
    THEN extract_constraints_return(p.set,
             [set |-> excluded, error |-> p.error])
    ELSE extract_constraints_return(p.set,
             extract_subtrees(nc.excludedSubtrees, stack, 1,
                 [set |-> excluded, error |-> NoError]))

(* [ret, permitted, excluded, error]: the two NameSets as the call leaves  *)
(* them, and the value written to *error, NoError when nothing is written  *)
x509_constraints_extract_constraints(cert, permitted, excluded, stack) ==
    IF cert.nc = <<>>
    THEN extract_constraints_return(permitted,
             [set |-> excluded, error |-> NoError])
    ELSE extract_excluded(cert.nc[1], excluded, stack,
             extract_subtrees(cert.nc[1].permittedSubtrees, stack, 1,
                 [set |-> permitted, error |-> NoError]))

(***************************************************************************)
(* State.                                                                  *)
(*                                                                         *)
(* One call of x509_constraints_chain: chain is the argument (<<>> for a   *)
(* NULL stack, else a one-element sequence holding the certificates, leaf  *)
(* first); pc is the position in the function; i, names, permitted,        *)
(* excluded, constraints_count and verify_err are its locals (a NameSet    *)
(* pointer is <<>> when NULL, else a one-element sequence holding the      *)
(* set); error and depth are the caller's two output locations, NoError    *)
(* and NoDepth until the call writes them; ret is the return value.        *)
(* live_names and live_sets count the name records and the NameSets that   *)
(* are allocated and not freed.  checked records every call of             *)
(* x509_constraints_check: its depth, its three arguments and its result.  *)
(* extracted records every call of x509_constraints_extract_names: its     *)
(* depth, the certificate, is_leaf, the names it added and its result.     *)
(* Allocations are taken to succeed.                                       *)
(*                                                                         *)
(* fn, arg, res and fn_pc hold one call of a pure function: the function's *)
(* name, its argument, its result, and "call" before / "ret" after it.     *)
(***************************************************************************)
VARIABLES chain, pc, i, names, permitted, excluded, constraints_count,
          verify_err, error, depth, ret, live_names, live_sets, checked,
          extracted, fn, arg, res, fn_pc

chain_vars == <<chain, pc, i, names, permitted, excluded, constraints_count,
                verify_err, error, depth, ret, live_names, live_sets, checked,
                extracted>>
fn_vars == <<fn, arg, res, fn_pc>>
vars == <<chain_vars, fn_vars>>

NoDepth == 0 - 1
NoReturn == 0 - 1

(* no call of x509_constraints_chain is in progress *)
ChainIdle ==
    /\ chain = <<>>
    /\ pc = "idle"
    /\ i = 0
    /\ names = <<>>
    /\ permitted = <<>>
    /\ excluded = <<>>
    /\ constraints_count = 0
    /\ verify_err = X509_V_ERR_UNSPECIFIED
    /\ error = NoError
    /\ depth = NoDepth
    /\ ret = NoReturn
    /\ live_names = 0
    /\ live_sets = 0
    /\ checked = <<>>
    /\ extracted = <<>>

(* no call of a pure function is in progress *)
FnIdle ==
    /\ fn = "none"
    /\ arg = <<>>
    /\ res = <<>>
    /\ fn_pc = "idle"

(* what may lie behind the working buffer on the stack, up to the next NUL *)
StackRuns == {<<>>, <<"a">>, <<"x80", "a">>}

(***************************************************************************)
(* x509_constraints_chain                                                  *)
(*                                                                         *)
(* The ceilings of x509_internal.h are 512 names and 512 constraints; the  *)
(* model keeps the comparisons and scales the two numbers down so that     *)
(* chains of a few small certificates reach them.                          *)
(***************************************************************************)
X509_VERIFY_MAX_CHAIN_NAMES == 4
X509_VERIFY_MAX_CHAIN_CONSTRAINTS == 3

(* the number of records x509_constraints_names_free(set) frees *)
FreedNames(set) == IF set = <<>> THEN 0 ELSE Len(set[1])
(* the number of NameSets it frees *)
FreedSets(set) == IF set = <<>> THEN 0 ELSE 1

(* the "err" label with *depth = 0 *)
GotoErr_depth_zero(verr, idx, nm, pm, ex, ln, ls) ==
    /\ verify_err' = verr
    /\ error' = verr
    /\ depth' = 0
    /\ i' = idx
    /\ names' = <<>>
    /\ permitted' = <<>>
    /\ excluded' = <<>>
    /\ live_names' = ln - FreedNames(ex) - FreedNames(pm) - FreedNames(nm)
    /\ live_sets' = ls - FreedSets(ex) - FreedSets(pm) - FreedSets(nm)
    /\ ret' = 0
    /\ pc' = "done"

(* The "err" label, reached with these values of the locals and of the two *)
(* allocation counts: write *error and *depth, free the three sets,        *)
(* return 0.                                                               *)
GotoErr(verr, idx, nm, pm, ex, ln, ls) ==
    /\ verify_err' = verr
    /\ error' = verr
    /\ depth' = idx
    /\ i' = idx
    /\ names' = <<>>
    /\ permitted' = <<>>
    /\ excluded' = <<>>
    /\ live_names' = ln - FreedNames(ex) - FreedNames(pm) - FreedNames(nm)
    /\ live_sets' = ls - FreedSets(ex) - FreedSets(pm) - FreedSets(nm)
    /\ ret' = 0
    /\ pc' = "done"

(* the two tests of the chain length without the second one *)
chain_length_test_no_single(ch) ==
    IF ch = <<>> \/ Len(ch[1]) = 0 THEN "err" ELSE "go"

(* the two tests of the chain length at the entry: "err" for goto err,     *)
(* "return" for return 1, "go" to go on                                    *)
chain_length_test(ch) ==
    IF ch = <<>> \/ Len(ch[1]) = 0 THEN "err"
    ELSE IF Len(ch[1]) = 1 THEN "return"
    ELSE "go"

(* the comparison with the ceiling, with >= for > *)
constraints_ceiling_inclusive(count) ==
    count >= X509_VERIFY_MAX_CHAIN_CONSTRAINTS

(* the comparison of constraints_count with the ceiling *)
constraints_ceiling(count) ==
    count > X509_VERIFY_MAX_CHAIN_CONSTRAINTS

(* the record of extracted for the call at depth idx that returned r,      *)
(* entered with before names in the set                                    *)
ExtractedRecord(idx, cert, is_leaf, before, r) ==
    [i |-> idx, cert |-> cert, is_leaf |-> is_leaf,
     added |-> SubSeq(r.names, before + 1, Len(r.names)),
     ret |-> r.ret, error |-> r.error, lost |-> r.lost]

(* From the entry of the function to the head of the for loop: the checks  *)
(* of the chain length and the extraction of the leaf's names.             *)
ChainEntry ==
    /\ pc = "entry"
    /\ UNCHANGED <<chain, checked, constraints_count>>
    /\ IF chain_length_test(chain) = "err"
       THEN /\ GotoErr(verify_err, i, names, permitted, excluded,
                       live_names, live_sets)
            /\ UNCHANGED extracted
       ELSE IF chain_length_test(chain) = "return"
       THEN /\ ret' = 1
            /\ pc' = "done"
            /\ UNCHANGED <<i, names, permitted, excluded, verify_err, error,
                           depth, live_names, live_sets, extracted>>
       ELSE \E stack \in StackRuns :
            \E r \in {x509_constraints_extract_names(<<>>, chain[1][1], TRUE,
                                                     stack)} :
               /\ extracted' = Append(extracted,
                      ExtractedRecord(i, chain[1][1], TRUE, 0, r))
               /\ IF r.ret = 0
                  THEN GotoErr(r.error, i, <<r.names>>, permitted, excluded,
                               live_names + Len(r.names) + r.lost,
                               live_sets + 1)
                  ELSE /\ names' = <<r.names>>
                       /\ live_names' = live_names + Len(r.names) + r.lost
                       /\ live_sets' = live_sets + 1
                       /\ i' = 1
                       /\ pc' = "loop"
                       /\ UNCHANGED <<permitted, excluded, verify_err, error,
                                      depth, ret>>

(* The for loop is over: free names and return 1. *)
ChainReturn ==
    /\ pc = "loop"
    /\ ~(i < Len(chain[1]))
    /\ live_names' = live_names - FreedNames(names)
    /\ live_sets' = live_sets - FreedSets(names)
    /\ names' = <<>>
    /\ ret' = 1
    /\ pc' = "done"
    /\ UNCHANGED <<chain, i, permitted, excluded, constraints_count,
                   verify_err, error, depth, checked, extracted>>

(* cert->nc != NULL: allocate the two sets, extract the constraints, count *)
(* them and compare the count with the ceiling.                            *)
ExtractConstraints ==
    /\ pc = "loop"
    /\ i < Len(chain[1])
    /\ chain[1][i + 1].nc # <<>>
    /\ UNCHANGED <<chain, checked, extracted>>
    /\ \E stack \in StackRuns :
       \E r \in {x509_constraints_extract_constraints(chain[1][i + 1],
                                                      <<>>, <<>>, stack)} :
          IF r.ret = 0
          THEN /\ GotoErr(r.error, i, names, <<r.permitted>>, <<r.excluded>>,
                          live_names + Len(r.permitted) + Len(r.excluded),
                          live_sets + 2)
               /\ UNCHANGED constraints_count
          ELSE IF constraints_ceiling(constraints_count + Len(r.permitted)
                                          + Len(r.excluded))
          THEN /\ GotoErr(X509_V_ERR_OUT_OF_MEM, i, names, <<r.permitted>>,
                          <<r.excluded>>,
                          live_names + Len(r.permitted) + Len(r.excluded),
                          live_sets + 2)
               /\ constraints_count' = constraints_count + Len(r.permitted)
                                           + Len(r.excluded)
          ELSE /\ permitted' = <<r.permitted>>
               /\ excluded' = <<r.excluded>>
               /\ constraints_count' = constraints_count + Len(r.permitted)
                                           + Len(r.excluded)
               /\ live_names' = live_names + Len(r.permitted)
                                    + Len(r.excluded)
               /\ live_sets' = live_sets + 2
               /\ pc' = "check"
               /\ UNCHANGED <<i, names, verify_err, error, depth, ret>>

(* cert->nc == NULL: nothing to check for this certificate. *)
NoConstraints ==
    /\ pc = "loop"
    /\ i < Len(chain[1])
    /\ chain[1][i + 1].nc = <<>>
    /\ pc' = "names"
    /\ UNCHANGED <<chain, i, names, permitted, excluded, constraints_count,
                   verify_err, error, depth, ret, live_names, live_sets,
                   checked, extracted>>

(* x509_constraints_check on the names accumulated so far, then free the   *)
(* two constraint sets.                                                    *)
CheckNames ==
    /\ pc = "check"
    /\ UNCHANGED <<chain, constraints_count, extracted>>
    /\ \E r \in {x509_constraints_check(names[1], permitted[1],
                                        excluded[1])} :
       /\ checked' = Append(checked,
              [i |-> i, names |-> names[1], permitted |-> permitted[1],
               excluded |-> excluded[1], ret |-> r.ret, error |-> r.error])
       /\ IF r.ret = 0
          THEN GotoErr(r.error, i, names, permitted, excluded,
                       live_names, live_sets)
          ELSE /\ live_names' = live_names - FreedNames(excluded)
                                           - FreedNames(permitted)
               /\ live_sets' = live_sets - FreedSets(excluded)
                                         - FreedSets(permitted)
               /\ excluded' = <<>>
               /\ permitted' = <<>>
               /\ pc' = "names"
               /\ UNCHANGED <<i, names, verify_err, error, depth, ret>>

(* Extract the certificate's own names as a non-leaf, compare the size of  *)
(* names with the ceiling, and step to the next certificate.               *)
ExtractNames ==
    /\ pc = "names"
    /\ UNCHANGED <<chain, constraints_count, checked>>
    /\ \E stack \in StackRuns :
       \E r \in {x509_constraints_extract_names(names[1], chain[1][i + 1],
                                                FALSE, stack)} :
          /\ extracted' = Append(extracted,
                 ExtractedRecord(i, chain[1][i + 1], FALSE, Len(names[1]), r))
          /\ IF r.ret = 0
             THEN GotoErr(r.error, i, <<r.names>>, permitted, excluded,
                          live_names + (Len(r.names) - Len(names[1])) + r.lost,
                          live_sets)
             ELSE IF Len(r.names) > X509_VERIFY_MAX_CHAIN_NAMES
             THEN GotoErr(X509_V_ERR_OUT_OF_MEM, i, <<r.names>>, permitted,
                          excluded,
                          live_names + (Len(r.names) - Len(names[1])) + r.lost,
                          live_sets)
             ELSE /\ names' = <<r.names>>
                  /\ live_names' = live_names + (Len(r.names) - Len(names[1]))
                                       + r.lost
                  /\ i' = i + 1
                  /\ pc' = "loop"
                  /\ UNCHANGED <<permitted, excluded, verify_err, error, depth,
                                 ret, live_sets>>

(***************************************************************************)
(* The certificates the chains are built from                              *)
(***************************************************************************)
S_ab == <<"a", ".", "b">>
S_wab == <<"w", ".", "a", ".", "b">>
S_wAB == <<"w", ".", "A", ".", "B">>
S_wcd == <<"w", ".", "c", ".", "d">>
S_dot_ab == <<".", "a", ".", "b">>
S_dot_cd == <<".", "c", ".", "d">>
S_u_ab == <<"u", "@", "a", ".", "b">>
S_v_ab == <<"v", "@", "a", ".", "b">>
S_u_bad == <<"u", "@">>
S_uri_ab == <<"h", ":", "/", "/", "a", ".", "b", "/", "p">>
S_uri_bad == <<"h", ":", "a", ".", "b">>
S_not_host == <<"J", " ", "D">>
IP_10_0_0_5 == <<10, 0, 0, 5>>
IP_10_0_1_5 == <<10, 0, 1, 5>>
IP_10_0_0_0_24 == <<10, 0, 0, 0, 255, 255, 255, 0>>
DER_1 == <<"30", "d1">>
DER_2 == <<"30", "d2">>

San(type, data) == [type |-> type, data |-> data]
Attr(nid, data) == [nid |-> nid, data |-> data]
Subtree(type, data) ==
    [base |-> [type |-> type, data |-> data],
     minimum |-> FALSE, maximum |-> FALSE]
NC(p, x) == <<[permittedSubtrees |-> p, excludedSubtrees |-> x]>>
Cert(altname, subject, canon_enc, nc) ==
    [altname |-> altname, subject |-> subject, canon_enc |-> canon_enc,
     nc |-> nc]

Org == Attr(NID_organizationName, <<"o">>)

(* certificates placed at index 0 *)
LeafCerts ==
    { (* a DNS SAN, and a CN that is not used because of it *)
      Cert(<<San(GEN_DNS, S_wab)>>,
           <<Org, Attr(NID_commonName, S_wcd)>>, DER_1, <<>>),
      (* no SAN, the host name is in the CN *)
      Cert(<<>>, <<Attr(NID_commonName, S_wab)>>, DER_2, <<>>),
      (* an email SAN and a CN at the head of the subject *)
      Cert(<<San(GEN_EMAIL, S_u_ab)>>,
           <<Attr(NID_commonName, S_wab)>>, DER_2, <<>>),
      (* an email SAN and a CN deep in the subject *)
      Cert(<<San(GEN_EMAIL, S_u_ab)>>,
           <<Org, Org, Org, Attr(NID_commonName, S_wcd)>>, DER_2, <<>>),
      (* no SAN, a malformed emailAddress at the head of the subject *)
      Cert(<<>>, <<Attr(NID_pkcs9_emailAddress, S_u_bad)>>, DER_2, <<>>),
      (* no SAN, a malformed emailAddress as the third attribute *)
      Cert(<<>>, <<Org, Org, Attr(NID_pkcs9_emailAddress, S_u_bad)>>,
           DER_2, <<>>),
      (* no SAN; emailAddress and CN attributes, one CN not a host name *)
      Cert(<<>>,
           <<Org, Org, Attr(NID_pkcs9_emailAddress, S_v_ab),
             Attr(NID_commonName, S_wAB), Attr(NID_commonName, S_not_host)>>,
           DER_1, <<>>),
      (* URI, IP and otherName SANs, an empty subject *)
      Cert(<<San(GEN_URI, S_uri_ab), San(GEN_IPADD, IP_10_0_0_5),
             San(GEN_OTHER, <<>>)>>, <<>>, <<>>, <<>>),
      (* a DNS SAN outside .a.b, subject DER_1 *)
      Cert(<<San(GEN_DNS, S_wcd)>>, <<Org>>, DER_1, <<>>),
      (* a malformed DNS SAN, and name constraints of its own *)
      Cert(<<San(GEN_DNS, S_dot_ab)>>, <<Org>>, DER_1,
           NC(<<Subtree(GEN_DNS, S_dot_cd)>>, <<>>)),
      (* a malformed URI SAN after a good DNS SAN *)
      Cert(<<San(GEN_DNS, S_wab), San(GEN_URI, S_uri_bad)>>, <<>>, <<>>, <<>>),
      (* more DNS SANs than X509_VERIFY_MAX_CHAIN_NAMES *)
      Cert([k \in 1..(X509_VERIFY_MAX_CHAIN_NAMES + 1) |->
               San(GEN_DNS, S_wab)], <<Org>>, DER_2, <<>>)
    }

(* certificates placed at index 1 and above *)
IssuerCerts ==
    { (* no name constraints *)
      Cert(<<>>, <<Org>>, DER_2, <<>>),
      (* permitted: DNS .a.b *)
      Cert(<<>>, <<Org>>, DER_2, NC(<<Subtree(GEN_DNS, S_dot_ab)>>, <<>>)),
      (* permitted: DNS .c.d, and a DNS SAN of its own inside .a.b *)
      Cert(<<San(GEN_DNS, S_wab)>>, <<Org>>, DER_2,
           NC(<<Subtree(GEN_DNS, S_dot_cd)>>, <<>>)),
      (* excluded: DNS .a.b *)
      Cert(<<>>, <<>>, <<>>, NC(<<>>, <<Subtree(GEN_DNS, S_dot_ab)>>)),
      (* permitted: DNS .c.d; excluded: DNS .a.b *)
      Cert(<<>>, <<Org>>, DER_2,
           NC(<<Subtree(GEN_DNS, S_dot_cd)>>, <<Subtree(GEN_DNS, S_dot_ab)>>)),
      (* permitted: DNS .a.b; excluded: directory name DER_1 *)
      Cert(<<>>, <<Org>>, DER_2,
           NC(<<Subtree(GEN_DNS, S_dot_ab)>>, <<Subtree(GEN_DIRNAME, DER_1)>>)),
      (* a subtree with a minimum, after a good one *)
      Cert(<<>>, <<Org>>, DER_2,
           NC(<<Subtree(GEN_DNS, S_dot_ab),
                [Subtree(GEN_DNS, S_dot_cd) EXCEPT !.minimum = TRUE]>>, <<>>)),
      (* a malformed excluded constraint, after a good permitted one *)
      Cert(<<>>, <<Org>>, DER_2,
           NC(<<Subtree(GEN_DNS, S_dot_ab)>>,
              <<Subtree(GEN_DNS, <<"*", ".", "a">>)>>)),
      (* three constraints of three types and one of an ignored type *)
      Cert(<<>>, <<Org>>, DER_2,
           NC(<<Subtree(GEN_EMAIL, S_ab), Subtree(GEN_OTHER, <<>>),
                Subtree(GEN_IPADD, IP_10_0_0_0_24)>>,
              <<Subtree(GEN_URI, S_dot_cd)>>)),
      (* permitted: the mailbox u@a.b; names of its own; a CN and an       *)
      (* emailAddress that a non-leaf does not contribute                  *)
      Cert(<<San(GEN_DNS, S_wcd), San(GEN_IPADD, IP_10_0_1_5)>>,
           <<Attr(NID_commonName, S_wab),
             Attr(NID_pkcs9_emailAddress, S_u_bad)>>, DER_1,
           NC(<<Subtree(GEN_EMAIL, S_u_ab)>>, <<>>)),
      (* a malformed email SAN *)
      Cert(<<San(GEN_EMAIL, S_u_bad)>>, <<Org>>, DER_2, <<>>)
    }

(* the longest chain *)
MaxChainLen == 3

Chains ==
    {<<>>} \cup
    {<<c>> : c \in {<<>>} \cup
        UNION {{<<l>> \o t : l \in LeafCerts, t \in [1..k -> IssuerCerts]} :
                   k \in 0..(MaxChainLen - 1)}}

Init ==
    /\ chain \in Chains
    /\ pc = "entry"
    /\ i = 0
    /\ names = <<>>
    /\ permitted = <<>>
    /\ excluded = <<>>
    /\ constraints_count = 0
    /\ verify_err = X509_V_ERR_UNSPECIFIED
    /\ error = NoError
    /\ depth = NoDepth
    /\ ret = NoReturn
    /\ live_names = 0
    /\ live_sets = 0
    /\ checked = <<>>
    /\ extracted = <<>>
    /\ FnIdle

Next ==
    \/ ChainEntry /\ UNCHANGED fn_vars
    \/ ChainReturn /\ UNCHANGED fn_vars
    \/ ExtractConstraints /\ UNCHANGED fn_vars
    \/ NoConstraints /\ UNCHANGED fn_vars
    \/ CheckNames /\ UNCHANGED fn_vars
    \/ ExtractNames /\ UNCHANGED fn_vars

Spec == Init /\ [][Next]_vars

(***************************************************************************)
(* Inputs of parse_mailbox: every string over MailboxAlphabet of at most   *)
(* MaxMailboxLen bytes, and strings at the limits of the two parts.        *)
(***************************************************************************)
MaxMailboxLen == 5

MailboxAlphabet == {"a", "@", ".", "\\", "\"", "!"}

StringsUpTo(alphabet, n) == UNION {[1..k -> alphabet] : k \in 0..n}

(* a valid host name of n bytes, n >= 1, made of labels of at most 63 bytes *)
RECURSIVE HostOfLen(_)
HostOfLen(n) ==
    IF n <= 63 THEN Rep(<<"a">>, n)
    ELSE IF n = 64 THEN Rep(<<"a">>, 62) \o <<".", "a">>
    ELSE Rep(<<"a">>, 63) \o <<".">> \o HostOfLen(n - 64)

BoundaryMailboxes ==
    {Rep(<<"a">>, l) \o <<"@">> \o HostOfLen(d) :
        l \in {1, LOCAL_PART_MAX_LEN - 1, LOCAL_PART_MAX_LEN,
               LOCAL_PART_MAX_LEN + 1},
        d \in {1, DOMAIN_PART_MAX_LEN - 1, DOMAIN_PART_MAX_LEN,
               DOMAIN_PART_MAX_LEN + 1, DOMAIN_PART_MAX_LEN + 2}}
    \cup {<<"\"">> \o Rep(<<"a">>, l) \o <<"\"", "@", "a", ".", "a">> :
        l \in {LOCAL_PART_MAX_LEN - 3, LOCAL_PART_MAX_LEN - 2,
               LOCAL_PART_MAX_LEN - 1}}
    \cup {<<"\"">> \o Rep(<<"a">>, l) \o <<"\\", "@", "\"", "@", "a">> :
        l \in {1, LOCAL_PART_MAX_LEN - 4, LOCAL_PART_MAX_LEN - 3,
               LOCAL_PART_MAX_LEN - 2}}
    \cup {Rep(<<"a">>, l) \o <<"\\", "a", "@", "a", ".", "a">> :
        l \in {0, 1, LOCAL_PART_MAX_LEN - 2, LOCAL_PART_MAX_LEN - 1}}
    \cup {<<"u", "s", "e", "r", "@">>,
          <<"u", "s", "e", "r", "@", "e", "x", "a", "m", "p", "l", "e",
            ".", "c", "o", "m">>,
          <<"a", "@", "1", ".", "2", ".", "3", ".", "4">>,
          <<"a", "@", "1", ".", "2", ".", "3">>,
          <<"a", "@", ":", ":", "1">>,
          <<"a", "@", "-", "a">>,
          <<"a", "@", "a", "-">>,
          <<"a", "@", "a", "x80">>,
          <<"a", "CR", "@", "a">>,
          <<"a", " ", "@", "a">>,
          <<"\"", "a", " ", "b", "\"", "@", "a">>,
          <<"\"", "a", "HT", "b", "\"", "@", "a">>,
          <<"\"", "\\", " ", "\"", "@", "a">>,
          <<"a", "\\", " ", "@", "a">>,
          <<"a", "\\", "\\", "a", "@", "a">>,
          <<"a", "\\", "@", "a", ".", "a">>,
          <<"a", "b", "\\">>}

MailboxInputs == StringsUpTo(MailboxAlphabet, MaxMailboxLen) \cup BoundaryMailboxes

NoResult ==
    [ret |-> -1, name |-> x509_constraints_name_new, overread |-> FALSE,
     unfreed |-> 0]

(* the records parse_mailbox is handed: a new one, and one in use *)
MailboxTargets ==
    {x509_constraints_name_new,
     [x509_constraints_name_new EXCEPT !.type = GEN_DNS, !.name = <<"o">>]}

InitMailbox ==
    /\ ChainIdle
    /\ fn = "x509_constraints_parse_mailbox"
    /\ arg \in {[candidate |-> c, name |-> n] :
                   c \in MailboxInputs, n \in MailboxTargets}
    /\ res = NoResult
    /\ fn_pc = "call"

ParseMailbox ==
    /\ fn = "x509_constraints_parse_mailbox"
    /\ fn_pc = "call"
    /\ \E stack \in StackRuns :
          res' = x509_constraints_parse_mailbox(arg.candidate, stack, arg.name)
    /\ fn_pc' = "ret"
    /\ UNCHANGED <<fn, arg>>
    /\ UNCHANGED chain_vars

NextMailbox == ParseMailbox

SpecMailbox == InitMailbox /\ [][NextMailbox]_vars

(***************************************************************************)
(* Inputs of uri_host: every string over UriAlphabet of at most MaxUriLen  *)
(* bytes, and URIs with a user part, a port, a path or an address as host. *)
(***************************************************************************)
MaxUriLen == 5

UriAlphabet == {"a", "/", ":", "@", ".", "x80"}

BoundaryUris ==
    {<<"h", ":", "/", "/", "a", ".", "b", "/", "p">>,
     <<"h", ":", "/", "/", "u", "@", "a", ".", "b", "?", "q">>,
     <<"h", ":", "/", "/", "u", "@", "v", "@", "a", ".", "b">>,
     <<"h", ":", "/", "/", "u", ":", "p", "@", "a", ".", "b">>,
     <<"h", ":", "/", "/", "a", ".", "b", "#", "x80">>,
     <<"h", ":", "/", "/", "a", "x80", "b">>,
     <<"h", ":", "/", "/", "*", ".", "a">>,
     <<"h", ":", "/", "/", "-", "a">>,
     <<"/", "/", "1", ".", "1", ".", "1", ".", "1">>,
     <<"/", "/", "1", ".", "1", ".", "1", ".", "1", "/">>,
     <<"/", "/", "1", ".", "1", ".", "1", ".", "1", ":", "8", "0">>,
     <<"/", "/", "u", "@", "1", ".", "1", ".", "1", ".", "1", "#", "f">>,
     <<"/", "/", "1", ".", "1", ".", "1">>,
     <<"h", ":", "a", ".", "b">>}

UriInputs == StringsUpTo(UriAlphabet, MaxUriLen) \cup BoundaryUris

NoUriResult == [ret |-> -1, host |-> NULL]

InitUri ==
    /\ ChainIdle
    /\ fn = "x509_constraints_uri_host"
    /\ arg \in {[uri |-> u] : u \in UriInputs}
    /\ res = NoUriResult
    /\ fn_pc = "call"

UriHost ==
    /\ fn = "x509_constraints_uri_host"
    /\ fn_pc = "call"
    /\ res' = x509_constraints_uri_host(arg.uri)
    /\ fn_pc' = "ret"
    /\ UNCHANGED <<fn, arg>>
    /\ UNCHANGED chain_vars

NextUri == UriHost

SpecUri == InitUri /\ [][NextUri]_vars

(***************************************************************************)
(* Inputs of valid_host: every string over HostAlphabet of at most         *)
(* MaxHostLen bytes, names at the limits of a label and of the whole name, *)
(* and textual addresses.                                                  *)
(***************************************************************************)
MaxHostLen == 5

HostAlphabet == {"a", "1", "-", ".", "_", "*"}

BoundaryHosts ==
    {HostOfLen(n) : n \in {63, 64, DOMAIN_PART_MAX_LEN - 1,
                           DOMAIN_PART_MAX_LEN, DOMAIN_PART_MAX_LEN + 1}}
    \cup {Rep(<<"a">>, n) \o <<".", "a">> : n \in {62, 63, 64}}
    \cup {<<"a", ".">> \o Rep(<<"a">>, n) : n \in {62, 63, 64}}
    \cup {<<"1", ".", "1", ".", "1", ".", "1">>,
          <<"1", ".", "1", ".", "1", ".", "2", "5", "6">>,
          <<"0", "1", ".", "1", ".", "1", ".", "1">>,
          <<"1", ".", "1", ".", "1", ".", "1", ".", "a">>,
          <<":", ":", "1">>,
          <<"f", "e", "8", "0", ":", ":", "1">>,
          <<"w", "w", "w", ".", "E", "x", "-", "1", ".", "c", "o", "m">>,
          <<"a", "NUL", "b">>,
          <<"a", "x80">>,
          <<"a", " ", "b">>,
          <<"a", "/", "b">>}

HostInputs == StringsUpTo(HostAlphabet, MaxHostLen) \cup BoundaryHosts

InitHost ==
    /\ ChainIdle
    /\ fn = "x509_constraints_valid_host"
    /\ arg \in {[name |-> h] : h \in HostInputs}
    /\ res = "none"
    /\ fn_pc = "call"

ValidHost ==
    /\ fn = "x509_constraints_valid_host"
    /\ fn_pc = "call"
    /\ res' = x509_constraints_valid_host(CStr(arg.name), arg.name)
    /\ fn_pc' = "ret"
    /\ UNCHANGED <<fn, arg>>
    /\ UNCHANGED chain_vars

NextHost == ValidHost

SpecHost == InitHost /\ [][NextHost]_vars

(***************************************************************************)
(* Inputs of x509_constraints_domain: every pair of strings over           *)
(* DomainAlphabet of at most MaxDomainLen bytes.                           *)
(***************************************************************************)
MaxDomainLen == 3

DomainAlphabet == {"a", "A", "b", "."}

DomainInputs == StringsUpTo(DomainAlphabet, MaxDomainLen)

InitDomain ==
    /\ ChainIdle
    /\ fn = "x509_constraints_domain"
    /\ arg \in {[domain |-> d, constraint |-> c] :
                   d \in DomainInputs, c \in DomainInputs}
    /\ res = "none"
    /\ fn_pc = "call"

Domain ==
    /\ fn = "x509_constraints_domain"
    /\ fn_pc = "call"
    /\ res' = x509_constraints_domain(arg.domain, arg.constraint)
    /\ fn_pc' = "ret"
    /\ UNCHANGED <<fn, arg>>
    /\ UNCHANGED chain_vars

NextDomain == Domain

SpecDomain == InitDomain /\ [][NextDomain]_vars

(***************************************************************************)
(* Inputs of x509_constraints_match: validated records of one type, Dns    *)
(* names of at most MaxMatchLen bytes, mailboxes, and IPv4 and IPv6        *)
(* addresses with their constraints (address, then mask).                  *)
(***************************************************************************)
MaxMatchLen == 3

MatchAlphabet == {"a", "A", "b", "."}

S_example_com ==
    <<"e", "x", "a", "m", "p", "l", "e", ".", "c", "o", "m">>

DnsRecord(n) ==
    [x509_constraints_name_new EXCEPT !.type = GEN_DNS, !.name = n]

DnsStrings ==
    StringsUpTo(MatchAlphabet, MaxMatchLen)
    \cup {S_example_com, <<".">> \o S_example_com,
          <<"w", "w", "w", ".">> \o S_example_com,
          <<"W", "w", "w", ".">> \o <<"E">> \o Tail(S_example_com),
          <<"b", "a", "d">> \o S_example_com}

DnsPairs ==
    {[name |-> DnsRecord(n), constraint |-> DnsRecord(c)] :
        n \in DnsStrings, c \in DnsStrings}

EmailRecord(l, d) ==
    [x509_constraints_name_new EXCEPT
        !.type = GEN_EMAIL, !.local = l, !.name = d]

EmailLocals == {<<"u">>, <<"U">>, <<"v">>, <<"u", "v">>}

EmailDomains == StringsUpTo(MatchAlphabet, 2)

EmailPairs ==
    {[name |-> EmailRecord(l, d), constraint |-> EmailRecord(cl, cd)] :
        l \in EmailLocals, d \in EmailDomains \ {<<>>},
        cl \in EmailLocals \cup {NULL}, cd \in EmailDomains}

IpRecord(af, bytes) ==
    [x509_constraints_name_new EXCEPT
        !.type = GEN_IPADD, !.af = af, !.address = bytes]

Ip4Addresses ==
    {<<10, 0, c, d>> : c \in {0, 1}, d \in {0, 4, 5, 255}}

Ip4Masks ==
    {<<255, 255, 255, 0>>, <<255, 255, 255, 254>>, <<255, 255, 254, 0>>,
     <<0, 0, 0, 0>>, <<255, 255, 255, 255>>, <<255, 255, 255, 4>>}

Ip6Prefix == <<32, 1, 13, 184, 0, 0, 0, 0, 0, 0, 0, 0>>

Ip6MaskPrefix == Rep(<<255>>, 12)

IpNames ==
    {IpRecord(AF_INET, a) : a \in Ip4Addresses}
    \cup {IpRecord(AF_INET6, Ip6Prefix \o a) : a \in Ip4Addresses}

IpConstraints ==
    {IpRecord(AF_INET, a \o k) : a \in Ip4Addresses, k \in Ip4Masks}
    \cup {IpRecord(AF_INET6, Ip6Prefix \o a \o Ip6MaskPrefix \o k) :
             a \in Ip4Addresses, k \in Ip4Masks}

IpPairs == {[name |-> n, constraint |-> c] : n \in IpNames, c \in IpConstraints}

MixedPairs ==
    {[name |-> n, constraint |-> c] :
        n \in {DnsRecord(<<"a">>), EmailRecord(<<"u">>, <<"a">>),
               IpRecord(AF_INET, <<10, 0, 0, 5>>)},
        c \in {DnsRecord(<<"a">>), EmailRecord(NULL, <<"a">>),
               IpRecord(AF_INET, <<10, 0, 0, 0, 255, 255, 255, 0>>)}}

MatchInputs == DnsPairs \cup EmailPairs \cup IpPairs \cup MixedPairs

InitMatch ==
    /\ ChainIdle
    /\ fn = "x509_constraints_match"
    /\ arg \in MatchInputs
    /\ res = "none"
    /\ fn_pc = "call"

Match ==
    /\ fn = "x509_constraints_match"
    /\ fn_pc = "call"
    /\ res' = x509_constraints_match(arg.name, arg.constraint)
    /\ fn_pc' = "ret"
    /\ UNCHANGED <<fn, arg>>
    /\ UNCHANGED chain_vars

NextMatch == Match

SpecMatch == InitMatch /\ [][NextMatch]_vars

(***************************************************************************)
(* Word primitives of bn_internal.h, in the versions that use no double    *)
(* word type.  A BN_ULONG holds BN_BITS2 bits; every C expression on       *)
(* BN_ULONG is reduced modulo 2^BN_BITS2.                                  *)
(***************************************************************************)
BN_BITS4 == 2

BN_BITS2 == 2 * BN_BITS4

BN_MASK2 == 2 ^ BN_BITS2 - 1

BN_MASK2l == 2 ^ BN_BITS4 - 1

Word == 0..BN_MASK2

(* a | b, ~a, a >> n, a << n, a + b, a - b, a * b on BN_ULONG *)
BitOr(a, b) == a + b - BitAnd(a, b)

BitNot(a) == BN_MASK2 - a

ShiftRight(a, n) == a \div (2 ^ n)

ShiftLeft(a, n) == (a * (2 ^ n)) % (2 ^ BN_BITS2)

AddW(a, b) == (a + b) % (2 ^ BN_BITS2)

SubW(a, b) == (a - b) % (2 ^ BN_BITS2)

MulW(a, b) == (a * b) % (2 ^ BN_BITS2)

(* ((c1 & ~l) | c2) >> (BN_BITS2 - 1) with c1 = l | x and c2 = l & x, the  *)
(* carry out of sum = l + x                                                *)
carry_of(l, x, sum) ==
    ShiftRight(BitOr(BitAnd(BitOr(l, x), BitNot(sum)), BitAnd(l, x)),
               BN_BITS2 - 1)

(* bn_addw whose carry is c2 >> (BN_BITS2 - 1) alone *)
bn_addw_carry_from_and(a, b) ==
    [r1 |-> ShiftRight(BitAnd(a, b), BN_BITS2 - 1), r0 |-> AddW(a, b)]

bn_addw(a, b) ==
    LET c1 == BitOr(a, b)
        c2 == BitAnd(a, b)
        r0 == AddW(a, b)
        r1 == ShiftRight(BitOr(BitAnd(c1, BitNot(r0)), c2), BN_BITS2 - 1)
    IN  [r1 |-> r1, r0 |-> r0]

(* bn_addw_addw without r1 += carry *)
bn_addw_addw_first_carry_only(a, b, c) ==
    LET first == bn_addw(a, b)
        second == bn_addw(first.r0, c)
    IN  [r1 |-> first.r1, r0 |-> second.r0]

bn_addw_addw(a, b, c) ==
    LET first == bn_addw(a, b)
        second == bn_addw(first.r0, c)
    IN  [r1 |-> AddW(first.r1, second.r1), r0 |-> second.r0]

bn_subw(a, b) ==
    LET r0 == SubW(a, b)
        borrow == ShiftRight(
                      BitAnd(BitOr(r0, BitAnd(b, BitNot(a))),
                             BitOr(b, BitNot(a))),
                      BN_BITS2 - 1)
    IN  [borrow |-> borrow, r0 |-> r0]

bn_subw_subw(a, b, c) ==
    LET first == bn_subw(a, b)
        second == bn_subw(first.r0, c)
    IN  [borrow |-> AddW(first.borrow, second.borrow), r0 |-> second.r0]

(* the block without its carry line *)
umul_partition_no_carry(st, prod) ==
    LET xh == ShiftRight(prod, BN_BITS4)
        x == ShiftLeft(prod, BN_BITS4)
    IN  [h |-> AddW(st.h, xh), l |-> AddW(st.l, x), wide |-> st.wide + xh]

(* One "partition the result across h:l with carry" block of bn_umul_hilo: *)
(* st is [h, l, wide]; wide is the sum of the terms added to h so far      *)
(* without reduction, so that wide # h tells that an addition into h       *)
(* wrapped.                                                                *)
umul_partition(st, prod) ==
    LET xh == ShiftRight(prod, BN_BITS4)
        x == ShiftLeft(prod, BN_BITS4)
        l == AddW(st.l, x)
        c == carry_of(st.l, x, l)
    IN  [h |-> AddW(AddW(st.h, xh), c), l |-> l, wide |-> st.wide + xh + c]

bn_umul_hilo(a, b) ==
    LET ah == ShiftRight(a, BN_BITS4)
        al == BitAnd(a, BN_MASK2l)
        bh == ShiftRight(b, BN_BITS4)
        bl == BitAnd(b, BN_MASK2l)
        h0 == MulW(ah, bh)
        l0 == MulW(al, bl)
        s1 == umul_partition([h |-> h0, l |-> l0, wide |-> ah * bh],
                             MulW(ah, bl))
        s2 == umul_partition(s1, MulW(bh, al))
    IN  [h |-> s2.h, l |-> s2.l, wide |-> s2.wide]

(***************************************************************************)
(* Inputs of the word primitives: every pair and every triple of words.    *)
(***************************************************************************)
BnFunctions2 == {"bn_umul_hilo", "bn_addw", "bn_subw"}

BnFunctions3 == {"bn_addw_addw", "bn_subw_subw"}

InitBn ==
    /\ ChainIdle
    /\ \/ /\ fn \in BnFunctions2
          /\ arg \in {[a |-> a, b |-> b] : a \in Word, b \in Word}
       \/ /\ fn \in BnFunctions3
          /\ arg \in {[a |-> a, b |-> b, c |-> c] :
                         a \in Word, b \in Word, c \in Word}
    /\ res = "none"
    /\ fn_pc = "call"

BnReturn(r) ==
    /\ fn_pc = "call"
    /\ res' = r
    /\ fn_pc' = "ret"
    /\ UNCHANGED <<fn, arg>>
    /\ UNCHANGED chain_vars

UmulHilo == fn = "bn_umul_hilo" /\ BnReturn(bn_umul_hilo(arg.a, arg.b))

Addw == fn = "bn_addw" /\ BnReturn(bn_addw(arg.a, arg.b))

Subw == fn = "bn_subw" /\ BnReturn(bn_subw(arg.a, arg.b))

AddwAddw ==
    fn = "bn_addw_addw" /\ BnReturn(bn_addw_addw(arg.a, arg.b, arg.c))

SubwSubw ==
    fn = "bn_subw_subw" /\ BnReturn(bn_subw_subw(arg.a, arg.b, arg.c))

NextBn == UmulHilo \/ Addw \/ Subw \/ AddwAddw \/ SubwSubw

SpecBn == InitBn /\ [][NextBn]_vars

(***************************************************************************)
(* ssl_seclevel.c: the default security callback.  ctx and ssl are <<>>    *)
(* for NULL or hold the configured security level; a cipher is the record  *)
(* of the four SSL_CIPHER fields the callback reads, the two bit masks as  *)
(* the sets of their flags.                                                *)
(***************************************************************************)
TLS1_VERSION == 769
TLS1_1_VERSION == 770
TLS1_2_VERSION == 771
TLS1_3_VERSION == 772
DTLS1_VERSION == 65279
DTLS1_2_VERSION == 65277

(* the TLS version a protocol version stands for, 0 when there is none *)
ssl_tls_version(version) ==
    IF version \in {TLS1_VERSION, TLS1_1_VERSION, TLS1_2_VERSION,
                    TLS1_3_VERSION}
    THEN version
    ELSE IF version = DTLS1_VERSION THEN TLS1_1_VERSION
    ELSE IF version = DTLS1_2_VERSION THEN TLS1_2_VERSION
    ELSE 0

SSL_SECOP_CIPHER_SUPPORTED == "SSL_SECOP_CIPHER_SUPPORTED"
SSL_SECOP_CIPHER_SHARED == "SSL_SECOP_CIPHER_SHARED"
SSL_SECOP_CIPHER_CHECK == "SSL_SECOP_CIPHER_CHECK"
SSL_SECOP_VERSION == "SSL_SECOP_VERSION"
SSL_SECOP_COMPRESSION == "SSL_SECOP_COMPRESSION"
SSL_SECOP_TICKET == "SSL_SECOP_TICKET"
SSL_SECOP_TMP_DH == "SSL_SECOP_TMP_DH"
SSL_SECOP_EE_KEY == "SSL_SECOP_EE_KEY"

SSL_aNULL == "SSL_aNULL"
SSL_aRSA == "SSL_aRSA"
SSL_RC4 == "SSL_RC4"
SSL_AES128 == "SSL_AES128"
SSL_kRSA == "SSL_kRSA"
SSL_kDHE == "SSL_kDHE"
SSL_kECDHE == "SSL_kECDHE"
SSL_TLSV1_2 == "SSL_TLSV1_2"
SSL_TLSV1_3 == "SSL_TLSV1_3"

(* ssl_security_normalize_level storing the configured level as it is *)
normalize_level_no_clamp(ctx, ssl) ==
    [ret |-> 1, level |-> IF ctx # <<>> THEN ctx[1] ELSE ssl[1]]

(* [ret, level]: the return value and *out_level *)
ssl_security_normalize_level(ctx, ssl) ==
    LET configured == IF ctx # <<>> THEN ctx[1] ELSE ssl[1]
        raised == IF configured < 0 THEN 0 ELSE configured
        security_level == IF raised > 5 THEN 5 ELSE raised
    IN  [ret |-> 1, level |-> security_level]

(* [ret, bits]: the return value and *out_minimum_bits (0, the caller's    *)
(* initial value, when nothing is stored)                                  *)
ssl_security_level_to_minimum_bits(security_level) ==
    IF security_level < 0 THEN [ret |-> 0, bits |-> 0]
    ELSE IF security_level = 0 THEN [ret |-> 1, bits |-> 0]
    ELSE IF security_level = 1 THEN [ret |-> 1, bits |-> 80]
    ELSE IF security_level = 2 THEN [ret |-> 1, bits |-> 112]
    ELSE IF security_level = 3 THEN [ret |-> 1, bits |-> 128]
    ELSE IF security_level = 4 THEN [ret |-> 1, bits |-> 192]
    ELSE [ret |-> 1, bits |-> 256]

(* [ret, level, bits] *)
ssl_security_level_and_minimum_bits(ctx, ssl) ==
    LET n == ssl_security_normalize_level(ctx, ssl)
        b == ssl_security_level_to_minimum_bits(n.level)
    IN  IF n.ret = 0 THEN [ret |-> 0, level |-> 0, bits |-> 0]
        ELSE IF b.ret = 0 THEN [ret |-> 0, level |-> 0, bits |-> 0]
        ELSE [ret |-> 1, level |-> n.level, bits |-> b.bits]

ssl_security_secop_cipher(ctx, ssl, bits, cipher) ==
    LET lb == ssl_security_level_and_minimum_bits(ctx, ssl) IN
    IF lb.ret = 0 THEN 0
    ELSE IF lb.level <= 0 THEN 1
    ELSE IF bits < lb.bits THEN 0
    ELSE IF SSL_aNULL \in cipher.algorithm_auth THEN 0
    ELSE IF lb.level <= 1 THEN 1
    ELSE IF cipher.algorithm_enc = SSL_RC4 THEN 0
    ELSE IF lb.level <= 2 THEN 1
    ELSE IF /\ cipher.algorithm_mkey \cap {SSL_kDHE, SSL_kECDHE} = {}
            /\ cipher.algorithm_ssl # SSL_TLSV1_3
    THEN 0
    ELSE 1

ssl_security_secop_version(ctx, ssl, version) ==
    LET lb == ssl_security_level_and_minimum_bits(ctx, ssl)
        min_version == IF lb.level < 3 THEN TLS1_VERSION
                       ELSE IF lb.level < 4 THEN TLS1_1_VERSION
                       ELSE TLS1_2_VERSION
    IN  IF lb.ret = 0 THEN 0
        ELSE IF ssl_tls_version(version) >= min_version THEN 1 ELSE 0

ssl_security_secop_compression(ctx, ssl) == 0

ssl_security_secop_tickets(ctx, ssl) ==
    LET lb == ssl_security_level_and_minimum_bits(ctx, ssl) IN
    IF lb.ret = 0 THEN 0
    ELSE IF lb.level < 3 THEN 1 ELSE 0

ssl_security_secop_tmp_dh(ctx, ssl, bits) ==
    LET lb == ssl_security_level_and_minimum_bits(ctx, ssl) IN
    IF lb.ret = 0 THEN 0
    ELSE IF lb.level <= 0 /\ bits < 80 THEN 0
    ELSE IF bits >= lb.bits THEN 1 ELSE 0

ssl_security_secop_default(ctx, ssl, bits) ==
    LET lb == ssl_security_level_and_minimum_bits(ctx, ssl) IN
    IF lb.ret = 0 THEN 0
    ELSE IF bits >= lb.bits THEN 1 ELSE 0

ssl_security_default_cb(ssl, ctx, op, bits, version, cipher) ==
    IF op \in {SSL_SECOP_CIPHER_SUPPORTED, SSL_SECOP_CIPHER_SHARED,
               SSL_SECOP_CIPHER_CHECK}
    THEN ssl_security_secop_cipher(ctx, ssl, bits, cipher)
    ELSE IF op = SSL_SECOP_VERSION
    THEN ssl_security_secop_version(ctx, ssl, version)
    ELSE IF op = SSL_SECOP_COMPRESSION
    THEN ssl_security_secop_compression(ctx, ssl)
    ELSE IF op = SSL_SECOP_TICKET
    THEN ssl_security_secop_tickets(ctx, ssl)
    ELSE IF op = SSL_SECOP_TMP_DH
    THEN ssl_security_secop_tmp_dh(ctx, ssl, bits)
    ELSE ssl_security_secop_default(ctx, ssl, bits)

(***************************************************************************)
(* Inputs of the callback: configured levels on both sides of 0..5, bits   *)
(* on both sides of every minimum, every protocol version and one that is  *)
(* none, ciphers with every combination of the fields that are read.       *)
(***************************************************************************)
SecLevels == (0 - 2)..7

SecOps ==
    {SSL_SECOP_CIPHER_SUPPORTED, SSL_SECOP_CIPHER_SHARED,
     SSL_SECOP_CIPHER_CHECK, SSL_SECOP_VERSION, SSL_SECOP_COMPRESSION,
     SSL_SECOP_TICKET, SSL_SECOP_TMP_DH, SSL_SECOP_EE_KEY}

SecBits == {0 - 1, 0, 79, 80, 111, 112, 127, 128, 191, 192, 255, 256}

SecVersions ==
    {0, TLS1_VERSION, TLS1_1_VERSION, TLS1_2_VERSION, TLS1_3_VERSION,
     DTLS1_VERSION, DTLS1_2_VERSION}

SecCiphers ==
    {[algorithm_auth |-> {a}, algorithm_enc |-> e, algorithm_mkey |-> {k},
      algorithm_ssl |-> v] :
        a \in {SSL_aNULL, SSL_aRSA}, e \in {SSL_RC4, SSL_AES128},
        k \in {SSL_kRSA, SSL_kDHE, SSL_kECDHE},
        v \in {SSL_TLSV1_2, SSL_TLSV1_3}}

(* ssl_ctx_security calls with ssl == NULL, ssl_security with ctx == NULL *)
SecCallers ==
    {[ssl |-> <<>>, ctx |-> <<l>>] : l \in SecLevels}
    \cup {[ssl |-> <<l>>, ctx |-> <<>>] : l \in SecLevels}

(* the arguments an operation reads vary, the others are fixed *)
SecArgs ==
    {[ssl |-> t.ssl, ctx |-> t.ctx, op |-> op, bits |-> b, version |-> v,
      cipher |-> c] :
        t \in SecCallers, op \in SecOps, b \in SecBits,
        v \in {TLS1_2_VERSION}, c \in SecCiphers}
    \cup
    {[ssl |-> t.ssl, ctx |-> t.ctx, op |-> SSL_SECOP_VERSION, bits |-> 0,
      version |-> v, cipher |-> c] :
        t \in SecCallers, v \in SecVersions,
        c \in {CHOOSE x \in SecCiphers : TRUE}}

InitSecurity ==
    /\ ChainIdle
    /\ fn = "ssl_security_default_cb"
    /\ arg \in SecArgs
    /\ res = "none"
    /\ fn_pc = "call"

SecurityDefaultCb ==
    /\ fn = "ssl_security_default_cb"
    /\ fn_pc = "call"
    /\ res' = ssl_security_default_cb(arg.ssl, arg.ctx, arg.op, arg.bits,
                                      arg.version, arg.cipher)
    /\ fn_pc' = "ret"
    /\ UNCHANGED <<fn, arg>>
    /\ UNCHANGED chain_vars

NextSecurity == SecurityDefaultCb

SpecSecurity == InitSecurity /\ [][NextSecurity]_vars

(***************************************************************************)
(* Properties of x509_constraints_chain and of the functions it calls      *)
(***************************************************************************)
Done == pc = "done"

ChainLen == IF chain = <<>> THEN 0 ELSE Len(chain[1])

(* the certificate at the 0-based index k of the chain *)
CertAt(k) == chain[1][k + 1]

(* the names the first n calls of extract_names added, in order *)
RECURSIVE AddedBy(_)
AddedBy(n) == IF n = 0 THEN <<>> ELSE AddedBy(n - 1) \o extracted[n].added

(* the permitted and excluded entries of a certificate's NameConstraints *)
ConstraintsOf(cert) ==
    x509_constraints_extract_constraints(cert, <<>>, <<>>, <<>>)

(* name matches no excluded entry, and matches a permitted entry when some *)
(* permitted entry has its type                                            *)
Satisfies(name, perm, excl) ==
    /\ \A j \in 1..Len(excl) : ~x509_constraints_match(name, excl[j])
    /\ (\E j \in 1..Len(perm) : perm[j].type = name.type)
          => \E j \in 1..Len(perm) : x509_constraints_match(name, perm[j])

(* C1: when the call returns 1 for a chain of n >= 2 certificates, every   *)
(* name extracted from certificate i (as the leaf iff i = 0) satisfies the *)
(* constraints of every constraint-bearing certificate j > i; a check at   *)
(* depth j is given the names of the certificates below j and no other     *)
C1_SuccessMeansConstraintsHold ==
    /\ \A n \in 1..Len(checked) :
          checked[n].names = AddedBy(checked[n].i)
    /\ (Done /\ ret = 1 /\ ChainLen >= 2) =>
          /\ Len(extracted) = ChainLen
          /\ \A k \in 1..ChainLen :
                /\ extracted[k].i = k - 1
                /\ extracted[k].cert = CertAt(k - 1)
                /\ extracted[k].is_leaf = (k = 1)
                /\ extracted[k].ret = 1
          /\ \A j \in 1..(ChainLen - 1) :
                CertAt(j).nc # <<>> =>
                   \A k \in 1..j :
                      \A m \in 1..Len(extracted[k].added) :
                         Satisfies(extracted[k].added[m],
                                   ConstraintsOf(CertAt(j)).permitted,
                                   ConstraintsOf(CertAt(j)).excluded)

(* a chain of three certificates is accepted although the names of a       *)
(* certificate with a permitted entry do not satisfy its own constraints   *)
C1_Witness ==
    /\ Done
    /\ ret = 1
    /\ ChainLen = 3
    /\ \E j \in 1..2 :
          /\ CertAt(j).nc # <<>>
          /\ Len(ConstraintsOf(CertAt(j)).permitted) > 0
          /\ Len(extracted[1].added) > 0
          /\ \E m \in 1..Len(extracted[j + 1].added) :
                ~Satisfies(extracted[j + 1].added[m],
                           ConstraintsOf(CertAt(j)).permitted,
                           ConstraintsOf(CertAt(j)).excluded)

(* the positions of the names of c.names that do not satisfy c's sets *)
Offenders(c) ==
    {k \in 1..Len(c.names) : ~Satisfies(c.names[k], c.permitted, c.excluded)}

FirstOffender(c) == CHOOSE k \in Offenders(c) : \A l \in Offenders(c) : k <= l

(* C2: x509_constraints_check returns 1 iff every name satisfies the two   *)
(* sets; when it fails the error is that of the first offending name:      *)
(* excluded violation if it matches an excluded entry, else permitted      *)
(* violation                                                               *)
C2_CheckContract ==
    \A n \in 1..Len(checked) :
       /\ checked[n].ret \in {0, 1}
       /\ (checked[n].ret = 1) <=> (Offenders(checked[n]) = {})
       /\ Offenders(checked[n]) # {} =>
             checked[n].error =
                IF \E j \in 1..Len(checked[n].excluded) :
                      x509_constraints_match(
                          checked[n].names[FirstOffender(checked[n])],
                          checked[n].excluded[j])
                THEN X509_V_ERR_EXCLUDED_VIOLATION
                ELSE X509_V_ERR_PERMITTED_VIOLATION

(* a check fails on a first offender that matches an excluded entry and    *)
(* also misses every permitted entry of its type                           *)
C2_Witness ==
    \E n \in 1..Len(checked) :
       /\ checked[n].ret = 0
       /\ checked[n].error = X509_V_ERR_EXCLUDED_VIOLATION
       /\ \E j \in 1..Len(checked[n].permitted) :
             checked[n].permitted[j].type =
                checked[n].names[FirstOffender(checked[n])].type
       /\ \A j \in 1..Len(checked[n].permitted) :
             ~x509_constraints_match(
                 checked[n].names[FirstOffender(checked[n])],
                 checked[n].permitted[j])

(* the last call of extract_names failed, or the names ceiling was         *)
(* exceeded after it                                                       *)
StoppedAfterNames ==
    /\ Len(extracted) >= 1
    /\ \/ extracted[Len(extracted)].ret = 0
       \/ /\ Len(extracted) >= 2
          /\ Len(AddedBy(Len(extracted))) > X509_VERIFY_MAX_CHAIN_NAMES

(* the index of the certificate in work: the number of certificates whose  *)
(* names have been extracted and accepted                                  *)
IndexInWork ==
    IF StoppedAfterNames THEN Len(extracted) - 1 ELSE Len(extracted)

(* C3: a failing call writes the error and the depth, and the depth is the *)
(* index of the certificate in work: 0 when the leaf's names cannot be     *)
(* extracted, i when the extraction of constraints or names, a ceiling or  *)
(* the check fails for certificate i; a call that succeeds writes neither  *)
C3_FailureWritesErrorAndDepth ==
    /\ ret # 0 => (error = NoError /\ depth = NoDepth)
    /\ (Done /\ ret = 0) =>
          /\ error # NoError
          /\ depth # NoDepth
          /\ depth = IndexInWork
          /\ (Len(extracted) = 1 /\ extracted[1].ret = 0) =>
                (depth = 0 /\ error = extracted[1].error)
          /\ (Len(extracted) >= 1 /\ extracted[Len(extracted)].ret = 0) =>
                (depth = extracted[Len(extracted)].i
                 /\ error = extracted[Len(extracted)].error)
          /\ (Len(checked) >= 1 /\ checked[Len(checked)].ret = 0) =>
                (depth = checked[Len(checked)].i
                 /\ error = checked[Len(checked)].error)

(* a name of the leaf violates the permitted entries of certificate 1 *)
C3_Witness ==
    /\ Done
    /\ ret = 0
    /\ ChainLen = 3
    /\ Len(checked) = 1
    /\ checked[1].i = 1
    /\ checked[1].ret = 0
    /\ error = X509_V_ERR_PERMITTED_VIOLATION
    /\ depth = 1

IsDnsName(n) == n.type = GEN_DNS
IsEmailName(n) == n.type = GEN_EMAIL
IsDnsSan(g) == g.type = GEN_DNS
IsEmailSan(g) == g.type = GEN_EMAIL
IsHostCN(a) ==
    a.nid = NID_commonName /\ x509_constraints_valid_host(CStr(a.data), a.data)
IsEmailAttr(a) == a.nid = NID_pkcs9_emailAddress

(* C4: a successful extract_names on a leaf with a non-empty subject and   *)
(* no DNS SAN adds one Dns name for every subject commonName that is a     *)
(* valid host name, wherever it sits and whatever other SANs there are,    *)
(* and nothing for the other commonNames; a leaf with a DNS SAN and a      *)
(* non-leaf add no Dns name from the subject                               *)
C4_CommonNameFallback ==
    \A n \in 1..Len(extracted) :
       extracted[n].ret = 1 =>
          IF /\ extracted[n].is_leaf
             /\ Len(extracted[n].cert.subject) > 0
             /\ SelectSeq(extracted[n].cert.altname, IsDnsSan) = <<>>
          THEN /\ Len(SelectSeq(extracted[n].added, IsDnsName))
                     = Len(SelectSeq(extracted[n].cert.subject, IsHostCN))
               /\ \A k \in 1..Len(SelectSeq(extracted[n].cert.subject,
                                            IsHostCN)) :
                     SelectSeq(extracted[n].added, IsDnsName)[k].name
                        = CStr(SelectSeq(extracted[n].cert.subject,
                                         IsHostCN)[k].data)
          ELSE Len(SelectSeq(extracted[n].added, IsDnsName))
                  = Len(SelectSeq(extracted[n].cert.altname, IsDnsSan))

(* the mailbox a subject emailAddress attribute parses to *)
MailboxOf(a) ==
    x509_constraints_parse_mailbox(a.data, <<>>, x509_constraints_name_new)

(* C5: extract_names on a leaf with a non-empty subject and no email SAN   *)
(* parses every subject emailAddress, wherever it sits and however many    *)
(* SANs there are: a malformed one makes the call fail with the name       *)
(* syntax error, and when the call succeeds each one has been added as an  *)
(* Email name; a leaf with an email SAN and a non-leaf add no Email name   *)
(* from the subject                                                        *)
C5_SubjectEmailFallback ==
    \A n \in 1..Len(extracted) :
       IF /\ extracted[n].is_leaf
          /\ Len(extracted[n].cert.subject) > 0
          /\ SelectSeq(extracted[n].cert.altname, IsEmailSan) = <<>>
       THEN /\ (\E k \in 1..Len(extracted[n].cert.subject) :
                   /\ IsEmailAttr(extracted[n].cert.subject[k])
                   /\ MailboxOf(extracted[n].cert.subject[k]).ret = 0)
                 => /\ extracted[n].ret = 0
                    /\ extracted[n].error = X509_V_ERR_UNSUPPORTED_NAME_SYNTAX
            /\ extracted[n].ret = 1 =>
                  /\ Len(SelectSeq(extracted[n].added, IsEmailName))
                        = Len(SelectSeq(extracted[n].cert.subject, IsEmailAttr))
                  /\ \A k \in 1..Len(SelectSeq(extracted[n].cert.subject,
                                               IsEmailAttr)) :
                        SelectSeq(extracted[n].added, IsEmailName)[k]
                           = [MailboxOf(SelectSeq(extracted[n].cert.subject,
                                            IsEmailAttr)[k]).name
                                 EXCEPT !.type = GEN_EMAIL]
       ELSE extracted[n].ret = 1 =>
               Len(SelectSeq(extracted[n].added, IsEmailName))
                  = Len(SelectSeq(extracted[n].cert.altname, IsEmailSan))

(* C6: a NULL or empty chain fails with the unspecified error at depth 0;  *)
(* a chain of one certificate returns 1 and no name and no constraint of   *)
(* the certificate is extracted or checked                                 *)
C6_EmptyAndSingleChain ==
    Done =>
       /\ ChainLen = 0 =>
             (ret = 0 /\ error = X509_V_ERR_UNSPECIFIED /\ depth = 0)
       /\ ChainLen = 1 =>
             /\ ret = 1
             /\ extracted = <<>>
             /\ checked = <<>>
             /\ constraints_count = 0
             /\ error = NoError
             /\ depth = NoDepth

(* a single certificate with a malformed SAN and NameConstraints of its    *)
(* own is accepted                                                         *)
C6_Witness ==
    /\ Done
    /\ ChainLen = 1
    /\ ret = 1
    /\ CertAt(0).nc # <<>>
    /\ x509_constraints_extract_names(<<>>, CertAt(0), TRUE, <<>>).ret = 0

(* the entries the call counts for a certificate *)
ConstraintCount(cert) ==
    IF cert.nc = <<>> THEN 0
    ELSE Len(ConstraintsOf(cert).permitted) + Len(ConstraintsOf(cert).excluded)

(* the permitted and excluded entries of the certificates 1..j *)
RECURSIVE RunningSum(_)
RunningSum(j) ==
    IF j = 0 THEN 0 ELSE RunningSum(j - 1) + ConstraintCount(CertAt(j))

(* C7: constraints_count is the sum of the permitted and excluded entries  *)
(* of the constraint-bearing certificates so far; when the sum is greater  *)
(* than the ceiling the call fails with X509_V_ERR_OUT_OF_MEM at the depth *)
(* of that certificate and the check is not run for it; when the sum is at *)
(* most the ceiling the check is run                                       *)
C7_ConstraintCeiling ==
    /\ pc = "check" =>
          (constraints_count = RunningSum(i)
           /\ RunningSum(i) <= X509_VERIFY_MAX_CHAIN_CONSTRAINTS)
    /\ \A n \in 1..Len(checked) :
          RunningSum(checked[n].i) <= X509_VERIFY_MAX_CHAIN_CONSTRAINTS
    /\ \A j \in 1..(Len(extracted) - 1) :
          CertAt(j).nc # <<>> => \E n \in 1..Len(checked) : checked[n].i = j
    /\ (/\ Done
        /\ Len(extracted) >= 1
        /\ Len(extracted) < ChainLen
        /\ ~StoppedAfterNames
        /\ CertAt(Len(extracted)).nc # <<>>
        /\ ConstraintsOf(CertAt(Len(extracted))).ret = 1) =>
          IF RunningSum(Len(extracted)) > X509_VERIFY_MAX_CHAIN_CONSTRAINTS
          THEN /\ ret = 0
               /\ error = X509_V_ERR_OUT_OF_MEM
               /\ depth = Len(extracted)
               /\ \A n \in 1..Len(checked) : checked[n].i # Len(extracted)
          ELSE \E n \in 1..Len(checked) : checked[n].i = Len(extracted)

(* the sum reaches the ceiling at certificate 1, whose check is run, and   *)
(* exceeds it at certificate 2                                             *)
C7_Witness ==
    /\ Done
    /\ ChainLen = 3
    /\ RunningSum(1) = X509_VERIFY_MAX_CHAIN_CONSTRAINTS
    /\ RunningSum(2) > X509_VERIFY_MAX_CHAIN_CONSTRAINTS
    /\ Len(checked) = 1
    /\ checked[1].i = 1
    /\ ret = 0
    /\ error = X509_V_ERR_OUT_OF_MEM
    /\ depth = 2

(* C8: when the call has returned, every name record and every NameSet it  *)
(* allocated has been freed, and every record a call of extract_names      *)
(* allocated was stored in the NameSet or freed when that call returned    *)
C8_NoLeak ==
    /\ Done => (live_names = 0 /\ live_sets = 0)
    /\ \A n \in 1..Len(extracted) : extracted[n].lost = 0

(***************************************************************************)
(* Properties of parse_mailbox                                             *)
(***************************************************************************)
MailboxDone == fn = "x509_constraints_parse_mailbox" /\ fn_pc = "ret"

(* the number of backslashes that directly precede position p, counted    *)
(* back no further than position from                                      *)
BackslashRun(c, from, p) ==
    CHOOSE k \in 0..(p - from) :
        /\ \A j \in 1..k : c[p - j] = "\\"
        /\ (k = p - from \/ c[p - k - 1] # "\\")

(* The positions of the '@' bytes outside a quoted string.  A string that *)
(* opens with '"' is quoted up to the first '"' that no backslash escapes. *)
UnquotedAt(c) ==
    IF Len(c) = 0 THEN {}
    ELSE IF c[1] # "\"" THEN {p \in 1..Len(c) : c[p] = "@"}
    ELSE LET closers == {q \in 2..Len(c) :
                            c[q] = "\"" /\ BackslashRun(c, 2, q) % 2 = 0}
         IN IF closers = {} THEN {}
            ELSE LET q == CHOOSE x \in closers : \A y \in closers : x <= y
                 IN {p \in (q + 1)..Len(c) : c[p] = "@"}

(* C9: when parse_mailbox succeeds the stored local part has 1..64 bytes,  *)
(* the stored domain part has 1..255 bytes and is a valid host name, and   *)
(* the type is Email; it fails for an input of more than 64+255+1 bytes,   *)
(* for an input without an unquoted '@', and for an input that ends in '@' *)
C9_ParseMailboxContract ==
    MailboxDone =>
        LET c == arg.candidate
            n == res.name
        IN
        /\ res.ret \in {0, 1}
        /\ res.ret = 1 =>
              /\ n.local # NULL
              /\ Len(n.local) >= 1
              /\ Len(n.local) <= 64
              /\ n.name # NULL
              /\ Len(n.name) >= 1
              /\ Len(n.name) <= 255
              /\ x509_constraints_valid_host(n.name, n.name)
              /\ n.type = GEN_EMAIL
        /\ Len(c) > 64 + 255 + 1 => res.ret = 0
        /\ UnquotedAt(c) = {} => res.ret = 0
        /\ (Len(c) >= 1 /\ c[Len(c)] = "@") => res.ret = 0

C9_Witness ==
    /\ MailboxDone
    /\ res.ret = 1
    /\ Len(res.name.local) = LOCAL_PART_MAX_LEN
    /\ Len(res.name.name) = DOMAIN_PART_MAX_LEN

(* C11: when parse_mailbox fails the target record is as it was on entry   *)
(* and no copy made while parsing is left allocated; the fields local,     *)
(* name and type are written on the success path only, all three together  *)
C11_FailureLeavesRecordUntouched ==
    MailboxDone =>
       /\ res.ret = 0 => (res.name = arg.name /\ res.unfreed = 0)
       /\ res.name # arg.name =>
             /\ res.ret = 1
             /\ res.name.local # NULL
             /\ res.name.name # NULL
             /\ res.name.type = GEN_EMAIL
             /\ res.unfreed = 0

(* a record in use is handed in, both parts are copied, and the call fails *)
(* on the validation of the domain part                                    *)
C11_Witness ==
    /\ MailboxDone
    /\ res.ret = 0
    /\ arg.name.type = GEN_DNS
    /\ arg.candidate = <<"a", "@", "a", ".">>
    /\ res.name = arg.name

(* the string s without its backslashes *)
Unescape(s) ==
    LET kept == {p \in 1..Len(s) : s[p] # "\\"}
    IN [k \in 1..Cardinality(kept) |->
           s[CHOOSE p \in kept : Cardinality({q \in kept : q <= p}) = k]]

(* every backslash of the unquoted local part l escapes an allowed byte,   *)
(* and every other byte of l is an allowed byte                            *)
EscapesOk(l) ==
    \A p \in 1..Len(l) :
        IF l[p] = "\\"
        THEN p < Len(l) /\ local_part_ok(l[p + 1])
        ELSE local_part_ok(l[p])

(* C10: outside a quoted string, a backslash followed by an allowed        *)
(* local-part byte is accepted, the backslash is dropped and the byte      *)
(* kept, so the mailbox parses when its domain is valid; a backslash       *)
(* followed by any other byte, or a trailing backslash, fails              *)
C10_UnquotedBackslashEscape ==
    MailboxDone =>
        LET c == arg.candidate IN
        /\ \A p \in 1..Len(c) :
              LET l == SubSeq(c, 1, p - 1)
                  d == SubSeq(c, p + 1, Len(c))
              IN
              ( /\ c[p] = "@"
                /\ \A q \in 1..(p - 1) : c[q] # "@"
                /\ c[1] # "\""
                /\ \E q \in 1..(p - 1) : c[q] = "\\" )
              => /\ ( /\ EscapesOk(l)
                      /\ l[1] # "."
                      /\ Len(Unescape(l)) >= 1
                      /\ Len(Unescape(l)) <= LOCAL_PART_MAX_LEN
                      /\ x509_constraints_valid_host(d, d) )
                    => ( /\ res.ret = 1
                         /\ res.name.local = Unescape(l)
                         /\ res.name.name = d )
                 /\ ~EscapesOk(l) => res.ret = 0
        /\ ( /\ Len(c) >= 1
             /\ c[1] # "\""
             /\ c[Len(c)] = "\\"
             /\ \A q \in 1..Len(c) : c[q] # "@" ) => res.ret = 0

(***************************************************************************)
(* Properties of uri_host                                                  *)
(***************************************************************************)
UriDone == fn = "x509_constraints_uri_host" /\ fn_pc = "ret"

(* the positions where "//" starts *)
SlashSlash(u) == {p \in 1..(Len(u) - 1) : u[p] = "/" /\ u[p + 1] = "/"}

(* the position where the authority starts, behind the first "//" *)
AuthorityStart(u) ==
    (CHOOSE p \in SlashSlash(u) : \A q \in SlashSlash(u) : p <= q) + 2

(* the position behind the authority's host: that of the first ':', '/',   *)
(* '?' or '#' of the authority, or the end of the URI                      *)
AuthorityStop(u) ==
    LET stops == {p \in AuthorityStart(u)..Len(u) :
                     u[p] \in {":", "/", "?", "#"}}
    IN IF stops = {} THEN Len(u) + 1
       ELSE CHOOSE p \in stops : \A q \in stops : p <= q

(* the positions of '@' before the stop *)
AuthorityAts(u) ==
    {p \in AuthorityStart(u)..(AuthorityStop(u) - 1) : u[p] = "@"}

(* the host of an authority with at most one '@' *)
AuthorityHost(u) ==
    IF AuthorityAts(u) = {}
    THEN SubSeq(u, AuthorityStart(u), AuthorityStop(u) - 1)
    ELSE SubSeq(u, (CHOOSE p \in AuthorityAts(u) : TRUE) + 1,
                AuthorityStop(u) - 1)

(* C12: uri_host succeeds only for an input of 3 bytes or more that holds  *)
(* "//", and the host it returns is not empty, is a valid host name and    *)
(* holds none of ':', '/', '?', '#', '@'; it fails when the authority has  *)
(* a second '@' before its first ':', '/', '?' or '#', when the input has  *)
(* no "//", when the host is empty, and when a scanned byte is not ASCII   *)
C12_UriHostContract ==
    UriDone =>
       /\ res.ret \in {0, 1}
       /\ res.ret = 1 =>
             /\ Len(arg.uri) >= 3
             /\ SlashSlash(arg.uri) # {}
             /\ res.host # NULL
             /\ Len(res.host) > 0
             /\ \A k \in 1..Len(res.host) :
                   res.host[k] \notin {":", "/", "?", "#", "@"}
             /\ x509_constraints_valid_host(res.host, res.host)
       /\ SlashSlash(arg.uri) = {} => res.ret = 0
       /\ SlashSlash(arg.uri) # {} =>
             /\ Cardinality(AuthorityAts(arg.uri)) >= 2 => res.ret = 0
             /\ (Cardinality(AuthorityAts(arg.uri)) <= 1
                 /\ AuthorityHost(arg.uri) = <<>>) => res.ret = 0
             /\ (\E p \in 1..(AuthorityStop(arg.uri) - 1) :
                    ~isascii(arg.uri[p])) => res.ret = 0

(***************************************************************************)
(* Properties of valid_host                                                *)
(***************************************************************************)
HostDone == fn = "x509_constraints_valid_host" /\ fn_pc = "ret"

(* h is a dot-separated sequence of labels of 1..63 bytes, none starting   *)
(* or ending with '-', of 1..255 bytes in all, made of letters, digits,    *)
(* '.', '-' and the bytes of extra, and is not a textual address           *)
HostNameOver(h, extra) ==
    /\ Len(h) >= 1
    /\ Len(h) <= 255
    /\ \A p \in 1..Len(h) :
          isalnum(h[p]) \/ h[p] \in {".", "-"} \/ h[p] \in extra
    /\ \A p \in 1..Len(h) :
          h[p] = "." => (p > 1 /\ p < Len(h) /\ h[p - 1] # ".")
    /\ \A p \in 1..Len(h) :
          h[p] = "-" =>
             (p > 1 /\ p < Len(h) /\ h[p - 1] # "." /\ h[p + 1] # ".")
    /\ \A p \in 1..(Len(h) - 63) : \E q \in p..(p + 63) : h[q] = "."
    /\ ~inet_pton4(h)
    /\ ~inet_pton6(h)

DomainDone == fn = "x509_constraints_domain" /\ fn_pc = "ret"

StartsWithDot(d) == Len(d) >= 1 /\ d[1] = "."

(* a and b have the same length and the same bytes ignoring ASCII case *)
EqualIgnoringCase(a, b) ==
    /\ Len(a) = Len(b)
    /\ \A k \in 1..Len(a) :
          \/ a[k] = b[k]
          \/ \E j \in 1..Len(Upper) :
                {a[k], b[k]} = {Upper[j], Lower[j]}

(* C14: domain_match(d, "") is true for every d; for d and a non-empty c   *)
(* where neither starts with '.', domain_match(d, c) is true if and only   *)
(* if d and c have equal length and are identical ignoring ASCII case      *)
C14_DomainMatch ==
    DomainDone =>
       /\ arg.constraint = <<>> => res
       /\ (/\ arg.constraint # <<>>
           /\ ~StartsWithDot(arg.domain)
           /\ ~StartsWithDot(arg.constraint))
          => (res <=> EqualIgnoringCase(arg.domain, arg.constraint))

(* a domain and a constraint that differ only in case match *)
C14_Witness ==
    /\ DomainDone
    /\ arg.domain = <<"a", "A", "b">>
    /\ arg.constraint = <<"A", "a", "b">>
    /\ res

(***************************************************************************)
(* Properties of x509_constraints_match                                    *)
(***************************************************************************)
MatchDone == fn = "x509_constraints_match" /\ fn_pc = "ret"

BothOfType(t) == arg.name.type = t /\ arg.constraint.type = t

(* C15: for a Dns name n and a Dns constraint c, matches(n, c) is true iff *)
(* c is empty, or len(c) <= len(n) and the last len(c) characters of n     *)
(* equal c ignoring ASCII case                                             *)
C15_DnsSuffixMatch ==
    (MatchDone /\ BothOfType(GEN_DNS)) =>
       LET n == arg.name.name
           c == arg.constraint.name
       IN  res <=>
              \/ c = <<>>
              \/ /\ Len(c) <= Len(n)
                 /\ EqualIgnoringCase(
                        [k \in 1..Len(c) |-> n[Len(n) - Len(c) + k]], c)

(* constraint ".example.com" matches the name "Www.Example.com" *)
C15_Witness ==
    /\ MatchDone
    /\ BothOfType(GEN_DNS)
    /\ arg.constraint.name = <<".">> \o S_example_com
    /\ arg.name.name = <<"W", "w", "w", ".">> \o <<"E">> \o Tail(S_example_com)
    /\ res

(* C16: for an Email name and an Email constraint with a local part,       *)
(* matches is true iff the local parts are equal byte for byte and the     *)
(* domains are equal ignoring ASCII case; for a constraint without a local *)
(* part, matches equals domain_match(name domain, constraint domain)       *)
C16_EmailMatch ==
    (MatchDone /\ BothOfType(GEN_EMAIL)) =>
       IF arg.constraint.local # NULL
       THEN res <=>
               /\ arg.name.local = arg.constraint.local
               /\ EqualIgnoringCase(arg.name.name, arg.constraint.name)
       ELSE res = x509_constraints_domain(arg.name.name, arg.constraint.name)

Bit(x, j) == (x \div (2 ^ j)) % 2

(* a and c agree on every bit that is set in m *)
EqualUnderMask(a, c, m) ==
    \A j \in 0..7 : Bit(m, j) = 1 => Bit(a, j) = Bit(c, j)

AddressBytes(af) == IF af = AF_INET THEN 4 ELSE 16

(* C17: for an IpAddress name and an IpAddress constraint, matches is true *)
(* iff both have the same family and, for every byte position k of the     *)
(* address, name[k] AND mask[k] equals constraint[k] AND mask[k], the mask *)
(* being the second half of the constraint bytes                           *)
C17_IpMatch ==
    (MatchDone /\ BothOfType(GEN_IPADD)) =>
       LET n == AddressBytes(arg.name.af)
       IN  res <=>
              /\ arg.name.af = arg.constraint.af
              /\ \A k \in 1..n :
                    EqualUnderMask(arg.name.address[k],
                                   arg.constraint.address[k],
                                   arg.constraint.address[n + k])

(* 10.0.0.5 matches 10.0.0.0 with mask 255.255.255.0 *)
C17_Witness ==
    /\ MatchDone
    /\ BothOfType(GEN_IPADD)
    /\ arg.name.address = <<10, 0, 0, 5>>
    /\ arg.constraint.address = <<10, 0, 0, 0, 255, 255, 255, 0>>
    /\ res

(***************************************************************************)
(* Properties of the word primitives                                       *)
(***************************************************************************)
BnDone(f) == fn = f /\ fn_pc = "ret"

(* C18: for every pair of words a, b, bn_umul_hilo returns (h, l) with     *)
(* h * 2^W + l = a * b, bn_umul_hilo(a, b) = bn_umul_hilo(b, a), and no    *)
(* addition into h loses a carry                                           *)
C18_UmulHiloExact ==
    BnDone("bn_umul_hilo") =>
       /\ res.h \in Word
       /\ res.l \in Word
       /\ res.h * (2 ^ BN_BITS2) + res.l = arg.a * arg.b
       /\ res.wide = res.h
       /\ LET swapped == bn_umul_hilo(arg.b, arg.a)
          IN  swapped.h = res.h /\ swapped.l = res.l

(* the largest words, where both partition blocks carry into h *)
C18_Witness ==
    /\ BnDone("bn_umul_hilo")
    /\ arg.a = BN_MASK2
    /\ arg.b = BN_MASK2
    /\ res.h = BN_MASK2 - 1
    /\ res.l = 1

(* C19: for every pair of words a, b, bn_addw returns (r1, r0) with r1 in  *)
(* {0, 1} and r1 * 2^W + r0 = a + b, and bn_subw returns (borrow, r0) with *)
(* borrow in {0, 1} and r0 - borrow * 2^W = a - b                          *)
C19_AddwSubw ==
    /\ BnDone("bn_addw") =>
          /\ res.r1 \in {0, 1}
          /\ res.r0 \in Word
          /\ res.r1 * (2 ^ BN_BITS2) + res.r0 = arg.a + arg.b
    /\ BnDone("bn_subw") =>
          /\ res.borrow \in {0, 1}
          /\ res.r0 \in Word
          /\ res.r0 - res.borrow * (2 ^ BN_BITS2) = arg.a - arg.b

(* an addition that carries although no bit position has both bits set     *)
(* at the top                                                              *)
C19_Witness ==
    /\ BnDone("bn_addw")
    /\ arg.a = BN_MASK2
    /\ arg.b = 1
    /\ res.r1 = 1
    /\ res.r0 = 0

(* C20 as stated: for all words a, b, c the carry of bn_addw_addw is 0 or  *)
(* 1 and the borrow of bn_subw_subw is 0 or 1                              *)
C20_CarryBorrowZeroOrOne ==
    /\ BnDone("bn_addw_addw") => res.r1 \in {0, 1}
    /\ BnDone("bn_subw_subw") => res.borrow \in {0, 1}

(* C20: for all words a, b, c the carry of bn_addw_addw is 0, 1 or 2 with  *)
(* r1 * 2^W + r0 = a + b + c, and the borrow of bn_subw_subw is 0, 1 or 2  *)
(* with r0 - borrow * 2^W = a - b - c                                      *)
C20_CarryBorrowUpToTwo ==
    /\ BnDone("bn_addw_addw") =>
          /\ res.r1 \in {0, 1, 2}
          /\ res.r0 \in Word
          /\ res.r1 * (2 ^ BN_BITS2) + res.r0 = arg.a + arg.b + arg.c
    /\ BnDone("bn_subw_subw") =>
          /\ res.borrow \in {0, 1, 2}
          /\ res.r0 \in Word
          /\ res.r0 - res.borrow * (2 ^ BN_BITS2) = arg.a - arg.b - arg.c

(* three largest words: both additions carry *)
C20_Witness ==
    /\ BnDone("bn_addw_addw")
    /\ arg.a = BN_MASK2
    /\ arg.b = BN_MASK2
    /\ arg.c = BN_MASK2
    /\ res.r1 = 2

(***************************************************************************)
(* The ceiling on the accumulated names                                    *)
(***************************************************************************)
(* C21: every time x509_constraints_chain calls x509_constraints_check,    *)
(* the accumulated names are at most X509_VERIFY_MAX_CHAIN_NAMES           *)
C21_NamesCeilingBeforeCheck ==
    \A k \in 1..Len(checked) :
       Len(checked[k].names) <= X509_VERIFY_MAX_CHAIN_NAMES

(***************************************************************************)
(* The working buffer of parse_mailbox                                     *)
(***************************************************************************)
(* the locals when the for loop of the returned call was left *)
MailboxLoopEnd ==
    parse_mailbox_loop(arg.candidate, <<>>, 1, Len(arg.candidate),
                       parse_mailbox_start)

(* C22: every write into the working buffer is at an index below           *)
(* DOMAIN_PART_MAX_LEN + 1, and whenever the buffer is copied as a C       *)
(* string at least one of its bytes is still NUL, for every input of at    *)
(* most LOCAL_PART_MAX_LEN + DOMAIN_PART_MAX_LEN + 1 bytes                 *)
C22_WorkingBufferBounds ==
    (/\ MailboxDone
     /\ Len(arg.candidate) <= LOCAL_PART_MAX_LEN + DOMAIN_PART_MAX_LEN + 1)
    => /\ Len(MailboxLoopEnd.working) <= DOMAIN_PART_MAX_LEN + 1
       /\ ~res.overread

(***************************************************************************)
(* The userinfo of a URI                                                   *)
(***************************************************************************)
(* the position behind the authority: that of the first '/', '?' or '#'    *)
(* behind the first "//", or the end of the URI                            *)
AuthorityEnd(u) ==
    LET stops == {p \in AuthorityStart(u)..Len(u) : u[p] \in {"/", "?", "#"}}
    IN IF stops = {} THEN Len(u) + 1
       ELSE CHOOSE p \in stops : \A q \in stops : p <= q

(* the positions of '@' in the authority *)
UserinfoAts(u) ==
    {p \in AuthorityStart(u)..(AuthorityEnd(u) - 1) : u[p] = "@"}

(* the text behind the '@' at position at, up to the next ':' or the end   *)
(* of the authority                                                        *)
HostBehind(u, at) ==
    LET colons == {p \in (at + 1)..(AuthorityEnd(u) - 1) : u[p] = ":"}
        stop == IF colons = {} THEN AuthorityEnd(u)
                ELSE CHOOSE p \in colons : \A q \in colons : p <= q
    IN SubSeq(u, at + 1, stop - 1)

(* C23: when the authority of a URI holds exactly one '@', the host that   *)
(* uri_host returns is the text behind that '@' up to the next ':' or the  *)
(* end of the authority, also when the userinfo holds ':'                  *)
C23_UserinfoNeverReturned ==
    (/\ UriDone
     /\ res.ret = 1
     /\ SlashSlash(arg.uri) # {}
     /\ Cardinality(UserinfoAts(arg.uri)) = 1)
    => res.host = HostBehind(arg.uri, CHOOSE p \in UserinfoAts(arg.uri) : TRUE)

(***************************************************************************)
(* Dns constraints and label boundaries                                    *)
(***************************************************************************)
(* C24: whenever a Dns name n matches a non-empty Dns constraint c that    *)
(* does not start with '.', either n equals c ignoring case or the         *)
(* character of n immediately before the matched suffix is '.'             *)
C24_DnsMatchOnLabelBoundary ==
    (/\ MatchDone
     /\ BothOfType(GEN_DNS)
     /\ arg.constraint.name # <<>>
     /\ ~StartsWithDot(arg.constraint.name)
     /\ res)
    => LET n == arg.name.name
           c == arg.constraint.name
       IN  \/ EqualIgnoringCase(n, c)
           \/ /\ Len(n) > Len(c)
              /\ n[Len(n) - Len(c)] = "."

(***************************************************************************)
(* Properties of ssl_security_default_cb                                   *)
(***************************************************************************)
SecurityDone == fn = "ssl_security_default_cb" /\ fn_pc = "ret"

ConfiguredLevel == IF arg.ctx # <<>> THEN arg.ctx[1] ELSE arg.ssl[1]

(* the level in 0..5 the configured level stands for *)
EffectiveLevel ==
    IF ConfiguredLevel < 0 THEN 0
    ELSE IF ConfiguredLevel > 5 THEN 5
    ELSE ConfiguredLevel

(* the callback on the arguments of the call, at the configured level l *)
CallbackAtLevel(l) ==
    ssl_security_default_cb(IF arg.ssl # <<>> THEN <<l>> ELSE <<>>,
                            IF arg.ctx # <<>> THEN <<l>> ELSE <<>>,
                            arg.op, arg.bits, arg.version, arg.cipher)

(* C25: if the callback permits an operation at effective level L + 1 it   *)
(* permits it at level L, for 0 <= L < 5; configured levels below 0 behave *)
(* as level 0 and levels above 5 as level 5; compression is denied at      *)
(* every level                                                             *)
C25_SecurityLevelMonotone ==
    SecurityDone =>
       /\ res \in {0, 1}
       /\ (res = 1 /\ EffectiveLevel >= 1) =>
             CallbackAtLevel(EffectiveLevel - 1) = 1
       /\ res = CallbackAtLevel(EffectiveLevel)
       /\ arg.op = SSL_SECOP_COMPRESSION => res = 0

(* a cipher with forward secrecy and 128 bits is permitted at level 3 *)
C25_Witness ==
    /\ SecurityDone
    /\ arg.op = SSL_SECOP_CIPHER_CHECK
    /\ ConfiguredLevel = 3
    /\ arg.bits = 128
    /\ arg.cipher.algorithm_mkey = {SSL_kECDHE}
    /\ res = 1

=============================================================================
